---- MODULE Spec2Model ----
(***************************************************************************)
(* Translation reconciliation of the i18n generator plugin.                *)
(*                                                                         *)
(* A JavaScript string is a sequence of one-character strings, so that     *)
(* joining a path with "." and splitting it again are computed and not     *)
(* assumed.  A JavaScript Map is a sequence of entries with distinct keys  *)
(* (insertion order is kept), and so is a plain object.                    *)
(***************************************************************************)
EXTENDS Naturals, Sequences, FiniteSets, TLC

(***************************************************************************)
(* Bounds of the model.                                                    *)
(***************************************************************************)
\* number of runs of the same plugin instance
MaxRuns == 2
\* entries of the resource trees and flat maps the codec is applied to
MaxCodecEntries == 2
MaxUnits == 3
MaxIndexFiles == 2
MaxMiddleware == 2

(***************************************************************************)
(* Strings.                                                                *)
(***************************************************************************)
\* the characters in use, in code-unit order (plain string ordering)
Alphabet ==
  << ".", "A", "B", "C", "D", "E", "F", "G", "N", "O", "P", "R", "S", "X", "_",
     "a", "b", "c", "d", "e", "f", "g", "h", "i", "l", "m", "n", "o", "p",
     "r", "s", "t", "u", "v", "x", "y" >>

CharCode(c) == CHOOSE i \in DOMAIN Alphabet : Alphabet[i] = c

Dot == "."

\* a < b in plain string ordering (lexicographic by code unit)
RECURSIVE StrLess(_, _)
StrLess(a, b) ==
  IF b = <<>> THEN FALSE
  ELSE IF a = <<>> THEN TRUE
  ELSE IF Head(a) = Head(b) THEN StrLess(Tail(a), Tail(b))
  ELSE CharCode(Head(a)) < CharCode(Head(b))

\* `${a}.${b}`
JoinDot(a, b) == a \o <<Dot>> \o b

\* a is a strict prefix of b on a "." boundary: a = "x", b = "x.y"
IsPathPrefix(a, b) ==
  /\ Len(a) < Len(b)
  /\ SubSeq(b, 1, Len(a)) = a
  /\ b[Len(a) + 1] = Dot

HasDot(s) == \E i \in DOMAIN s : s[i] = Dot

\* lodash stringToPath on a key without brackets: "a..b" gives "a", "", "b"
RECURSIVE SplitDot(_)
SplitDot(s) ==
  IF ~HasDot(s) THEN <<s>>
  ELSE LET i == CHOOSE j \in DOMAIN s :
                  s[j] = Dot /\ \A k \in 1..(j - 1) : s[k] # Dot
       IN  <<SubSeq(s, 1, i - 1)>> \o SplitDot(SubSeq(s, i + 1, Len(s)))

(***************************************************************************)
(* JavaScript values: a resource tree node is a string, a plain object     *)
(* (ordered own properties), a String wrapper object (what Object("x")     *)
(* gives: a primitive value plus own properties), null or undefined.       *)
(***************************************************************************)
Undefined == [kind |-> "undefined", val |-> <<>>, kids |-> <<>>]
Null == [kind |-> "null", val |-> <<>>, kids |-> <<>>]
Str(v) == [kind |-> "string", val |-> v, kids |-> <<>>]
Obj(kids) == [kind |-> "object", val |-> <<>>, kids |-> kids]
Wrapper(v, kids) == [kind |-> "wrapper", val |-> v, kids |-> kids]
Prop(k, n) == [k |-> k, n |-> n]

HasKid(node, k) == \E i \in DOMAIN node.kids : node.kids[i].k = k

GetKid(node, k) ==
  IF HasKid(node, k)
    THEN node.kids[CHOOSE i \in DOMAIN node.kids : node.kids[i].k = k].n
    ELSE Undefined

\* object[key] = value: an own property keeps its place, a new one is appended
AssignValue(node, k, value) ==
  IF HasKid(node, k)
    THEN [node EXCEPT !.kids =
            [i \in DOMAIN node.kids |->
               IF node.kids[i].k = k THEN Prop(k, value) ELSE node.kids[i]]]
    ELSE [node EXCEPT !.kids = Append(node.kids, Prop(k, value))]

\* the customizer handed to setWith: Object(value)
ObjectOf(node) ==
  CASE node.kind \in {"undefined", "null"} -> Obj(<<>>)
    [] node.kind = "string" -> Wrapper(node.val, <<>>)
    [] OTHER -> node

\* lodash isKey: a plain property name, or an own property of the object
IsKey(key, object) == ~HasDot(key) \/ HasKid(object, key)

\* a set that takes every key for a property name
CastPath_noSplit(key, object) == <<key>>

\* lodash castPath / stringToPath
CastPath(key, object) == IF IsKey(key, object) THEN <<key>> ELSE SplitDot(key)

\* lodash baseSet with the customizer Object
RECURSIVE BaseSet(_, _, _)
BaseSet(nested, path, value) ==
  IF Len(path) = 1
    THEN AssignValue(nested, path[1], value)
    ELSE AssignValue(nested, path[1],
                     BaseSet(ObjectOf(GetKid(nested, path[1])), Tail(path), value))

\* setWith(object, key, value, Object)
SetWith(object, key, value) == BaseSet(object, CastPath(key, object), Str(value))

\* JSON.stringify(value, null, 2): own properties in order; a String wrapper
\* is written as its primitive value and its own properties are not written.
\* The text is represented by the tree that JSON.parse reads back from it.
RECURSIVE Stringify(_)
Stringify(node) ==
  CASE node.kind = "wrapper" -> Str(node.val)
    [] node.kind = "object" ->
         Obj([i \in DOMAIN node.kids |->
                Prop(node.kids[i].k, Stringify(node.kids[i].n))])
    [] OTHER -> node

(***************************************************************************)
(* Translations and Maps of translations.                                  *)
(***************************************************************************)
NoSource == "none"
Translation(key, value, source) == [key |-> key, value |-> value, source |-> source]

MapHas(m, key) == \E i \in DOMAIN m : m[i].key = key
MapGet(m, key) == m[CHOOSE i \in DOMAIN m : m[i].key = key]
MapKeys(m) == {m[i].key : i \in DOMAIN m}

\* Map.prototype.set: an existing key keeps its place
MapSet(m, entry) ==
  IF MapHas(m, entry.key)
    THEN [i \in DOMAIN m |-> IF m[i].key = entry.key THEN entry ELSE m[i]]
    ELSE Append(m, entry)

\* the key -> value pairs of a Map
Pairs(m) == {<<m[i].key, m[i].value>> : i \in DOMAIN m}

(***************************************************************************)
(* Contents of a persisted file: no file, the empty text, text that is not *)
(* JSON, or the text of a JSON value.                                      *)
(***************************************************************************)
Absent == [kind |-> "absent", doc |-> Undefined]
EmptyText == [kind |-> "empty", doc |-> Undefined]
Malformed == [kind |-> "malformed", doc |-> Undefined]
Json(doc) == [kind |-> "json", doc |-> doc]

\* parseExistingValue: undefined for no or empty content, throws on bad JSON
parseExistingValue(content) ==
  CASE content.kind \in {"absent", "empty"} -> [threw |-> FALSE, data |-> Undefined]
    [] content.kind = "malformed" -> [threw |-> TRUE, data |-> Undefined]
    [] OTHER -> [threw |-> FALSE, data |-> content.doc]

\* gather(data, path) of gatherTranslations; Object.entries(null) throws
RECURSIVE gather(_, _, _)
RECURSIVE gatherEntries(_, _, _, _)
gather(data, path, acc) ==
  IF acc.threw THEN acc
  ELSE IF data.kind = "null" THEN [acc EXCEPT !.threw = TRUE]
  ELSE IF data.kind = "object" THEN gatherEntries(data.kids, 1, path, acc)
  ELSE [acc EXCEPT !.map = MapSet(acc.map, Translation(path, data.val, NoSource))]

\* a gather that forgets the path of the parent
RECURSIVE gatherEntries_noPath(_, _, _, _)
gatherEntries_noPath(kids, i, path, acc) ==
  IF i > Len(kids) \/ acc.threw THEN acc
  ELSE gatherEntries_noPath(kids, i + 1, path, gather(kids[i].n, kids[i].k, acc))

gatherEntries(kids, i, path, acc) ==
  IF i > Len(kids) \/ acc.threw THEN acc
  ELSE gatherEntries(kids, i + 1, path,
         gather(kids[i].n,
                IF path # <<>> THEN JoinDot(path, kids[i].k) ELSE kids[i].k,
                acc))

\* a falsy value: undefined, null or the empty string
Falsy(data) == data.kind \in {"undefined", "null"} \/ (data.kind = "string" /\ data.val = <<>>)

gatherTranslations(fileData) ==
  IF Falsy(fileData) THEN [threw |-> FALSE, map |-> <<>>]
  ELSE gather(fileData, <<>>, [threw |-> FALSE, map |-> <<>>])

\* the entries left in the order of their insertion
sortByKey_asInserted(entries) == entries

\* sortByKey(entries, entry => entry.key): ascending by key
RECURSIVE sortByKey(_)
sortByKey(entries) ==
  IF entries = <<>> THEN <<>>
  ELSE LET i == CHOOSE j \in DOMAIN entries :
                  \A k \in DOMAIN entries : ~StrLess(entries[k].key, entries[j].key)
       IN  <<entries[i]>> \o
           sortByKey(SubSeq(entries, 1, i - 1) \o SubSeq(entries, i + 1, Len(entries)))

(***************************************************************************)
(* Text constants.                                                         *)
(***************************************************************************)
s_enum == <<"e", "n", "u", "m">>
s_oneOf == <<"o", "n", "e", "O", "f">>
s_Color == <<"C", "o", "l", "o", "r">>
s_Removed == <<"R", "e", "m", "o", "v", "e", "d">>
s_Pay == <<"P", "a", "y">>
s_RED == <<"R", "E", "D">>
s_GREEN == <<"G", "R", "E", "E", "N">>
s_FOO == <<"F", "O", "O">>
s_card == <<"c", "a", "r", "d">>
s_Rouge == <<"R", "o", "u", "g", "e">>
s_Bar == <<"B", "a", "r">>
s_x == <<"x">>

(***************************************************************************)
(* Schema units (GeneratedSchema): the structural kind is the key that     *)
(* rawSchema holds (enum, oneOf, polymorph; object for any other unit).    *)
(***************************************************************************)
Schema(id, kind, generatedName, members) ==
  [id |-> id, kind |-> kind, generatedName |-> generatedName, members |-> members]

\* this.generatedSchemas, in iteration order
generatedSchemas ==
  << Schema("Color", "enum", s_Color, <<s_RED, s_GREEN>>),
     Schema("Pay", "oneOf", s_Pay, <<s_card>>),
     Schema("Obj", "object", <<"O", "b", "j">>, <<>>) >>

SchemaById(id) ==
  generatedSchemas[CHOOSE i \in DOMAIN generatedSchemas : generatedSchemas[i].id = id]

\* a path getter's result: <<>> is undefined, <<p>> is the path p
defaultTranslationPathOrGetter(schema) ==
  CASE schema.kind = "oneOf" -> <<JoinDot(s_oneOf, schema.generatedName)>>
    [] schema.kind = "enum" -> <<JoinDot(s_enum, schema.generatedName)>>
    [] OTHER -> <<>>

\* one Translation per member at `${schemaPath}.${name}`, valued as `value(name)`
WriteMembers(schema, schemaPath, value(_)) ==
  [i \in DOMAIN schema.members |->
     Translation(JoinDot(schemaPath, schema.members[i]), value(schema.members[i]), NoSource)]

(***************************************************************************)
(* Title casing, as the custom writer of the test suite does it.           *)
(***************************************************************************)
UpperCase == {"A", "B", "C", "D", "E", "F", "G", "N", "O", "P", "R", "S", "X"}
LowerOfUpper ==
  [c \in UpperCase |->
     CASE c = "A" -> "a" [] c = "B" -> "b" [] c = "C" -> "c" [] c = "D" -> "d"
       [] c = "E" -> "e" [] c = "F" -> "f" [] c = "G" -> "g" [] c = "N" -> "n"
       [] c = "O" -> "o" [] c = "P" -> "p" [] c = "R" -> "r" [] c = "S" -> "s"
       [] c = "X" -> "x"]
toLowerCase(s) == [i \in DOMAIN s |-> IF s[i] \in UpperCase THEN LowerOfUpper[s[i]] ELSE s[i]]
toUpperChar(c) ==
  IF \E u \in UpperCase : LowerOfUpper[u] = c
    THEN CHOOSE u \in UpperCase : LowerOfUpper[u] = c
    ELSE c

\* the words of a name: split at "_" and before an upper-case letter that
\* follows a lower-case one
RECURSIVE Words(_, _)
Words(s, word) ==
  IF s = <<>> THEN (IF word = <<>> THEN <<>> ELSE <<word>>)
  ELSE IF Head(s) = "_"
    THEN (IF word = <<>> THEN <<>> ELSE <<word>>) \o Words(Tail(s), <<>>)
  ELSE IF word # <<>> /\ Head(s) \in UpperCase /\ word[Len(word)] \notin UpperCase
    THEN <<word>> \o Words(Tail(s), <<Head(s)>>)
  ELSE Words(Tail(s), Append(word, Head(s)))

RECURSIVE JoinSpace(_)
JoinSpace(words) ==
  IF words = <<>> THEN <<>>
  ELSE IF Len(words) = 1 THEN words[1]
  ELSE words[1] \o <<" ">> \o JoinSpace(Tail(words))

\* change-case capitalCase: every word capitalised, joined by a space
capitalCase(name) ==
  LET ws == Words(name, <<>>)
  IN  JoinSpace([i \in DOMAIN ws |->
                   <<toUpperChar(ws[i][1])>> \o toLowerCase(Tail(ws[i]))])

defaultMinorWords == {<<"o", "f">>, <<"o", "r">>, <<"a">>, <<"a", "s">>}
caseOverrides(w) == IF w = <<"a", "p", "i">> THEN <<<<"A", "P", "I">>>> ELSE <<>>

titleCaseName(name) ==
  LET ws == Words(name, <<>>)
      cap(w) == <<toUpperChar(w[1])>> \o toLowerCase(Tail(w))
  IN  JoinSpace([i \in DOMAIN ws |->
                   IF caseOverrides(toLowerCase(ws[i])) # <<>>
                     THEN caseOverrides(toLowerCase(ws[i]))[1]
                   ELSE IF i # 1 /\ toLowerCase(ws[i]) \in defaultMinorWords
                     THEN toLowerCase(ws[i])
                   ELSE cap(ws[i])])

\* a default writer that title-cases the member names
defaultSchemaTranslationWriter_titleCased(schema, schemaPath) ==
  CASE schema.kind \in {"oneOf", "enum"} -> WriteMembers(schema, schemaPath, titleCaseName)
    [] OTHER -> <<>>

\* the writer's result or [] when it is undefined
defaultSchemaTranslationWriter(schema, schemaPath) ==
  LET name(n) == n
  IN  CASE schema.kind = "oneOf" -> WriteMembers(schema, schemaPath, name)
        [] schema.kind = "enum" -> WriteMembers(schema, schemaPath, name)
        [] OTHER -> <<>>

\* the test suite's writer, called as run calls it (no existing values)
i18nTranslationWriter(schema, schemaPath) ==
  CASE schema.kind = "oneOf" -> WriteMembers(schema, schemaPath, titleCaseName)
    [] schema.kind = "enum" -> WriteMembers(schema, schemaPath, titleCaseName)
    [] schema.kind = "polymorph" ->
         [i \in DOMAIN schema.members |->
            Translation(schema.members[i], titleCaseName(schema.members[i]), NoSource)]
    [] OTHER -> <<>>

(***************************************************************************)
(* Reconciliation.                                                         *)
(***************************************************************************)
Nullish(v) == v.kind \in {"undefined", "null"}

ValueOf(m, key) == IF MapHas(m, key) THEN Str(MapGet(m, key).value) ELSE Undefined
SourceOf(m, key) == IF MapHas(m, key) THEN MapGet(m, key).source ELSE NoSource

ProspectiveTranslation(key, newValue, existingValue, source) ==
  [key |-> key, newValue |-> newValue, existingValue |-> existingValue, source |-> source]

\* the keys of newValues alone
AllKeys_newOnly(newValues, existingValues) ==
  [i \in DOMAIN newValues |-> newValues[i].key]

\* the keys of newValues, then the keys of existingValues not among them
AllKeys(newValues, existingValues) ==
  [i \in DOMAIN newValues |-> newValues[i].key] \o
  SelectSeq([i \in DOMAIN existingValues |-> existingValues[i].key],
            LAMBDA k : ~MapHas(newValues, k))

buildProspectiveTranslations(newValues, existingValues) ==
  LET allKeys == AllKeys(newValues, existingValues)
  IN  [i \in DOMAIN allKeys |->
         ProspectiveTranslation(
           allKeys[i],
           ValueOf(newValues, allKeys[i]),
           ValueOf(existingValues, allKeys[i]),
           IF SourceOf(newValues, allKeys[i]) # NoSource
             THEN SourceOf(newValues, allKeys[i])
             ELSE SourceOf(existingValues, allKeys[i]))]

\* a handler that lets the generated value win over the persisted one
defaultConflictHandler_preferNew(prospect, prospects) ==
  CASE ~Nullish(prospect.newValue) ->
         <<[key |-> prospect.key, value |-> prospect.newValue.val, source |-> NoSource]>>
    [] Nullish(prospect.newValue) /\ ~Nullish(prospect.existingValue) ->
         <<[key |-> prospect.key, value |-> prospect.existingValue.val, source |-> NoSource]>>
    [] OTHER -> <<>>

\* a handler that has no case for a key that is only generated
defaultConflictHandler_dropNew(prospect, prospects) ==
  CASE ~Nullish(prospect.newValue) /\ ~Nullish(prospect.existingValue) ->
         <<[key |-> prospect.key, value |-> prospect.existingValue.val, source |-> NoSource]>>
    [] Nullish(prospect.newValue) /\ ~Nullish(prospect.existingValue) ->
         <<[key |-> prospect.key, value |-> prospect.existingValue.val, source |-> NoSource]>>
    [] OTHER -> <<>>

\* a handler's result: <<>> is null, <<t>> is the Translation t
defaultConflictHandler(prospect, prospects) ==
  CASE ~Nullish(prospect.newValue) /\ Nullish(prospect.existingValue) ->
         <<Translation(prospect.key, prospect.newValue.val, NoSource)>>
    [] ~Nullish(prospect.newValue) /\ ~Nullish(prospect.existingValue) ->
         <<Translation(prospect.key, prospect.existingValue.val, NoSource)>>
    [] Nullish(prospect.newValue) /\ ~Nullish(prospect.existingValue) ->
         <<Translation(prospect.key, prospect.existingValue.val, NoSource)>>
    [] OTHER -> <<>>

\* a configured handler: it drops a key that is no longer generated and lets
\* the generated value win, with the prospect's source
customConflictHandler(prospect, prospects) ==
  CASE Nullish(prospect.newValue) -> <<>>
    [] OTHER -> <<Translation(prospect.key, prospect.newValue.val, prospect.source)>>

\* a configured handler that is not total: "throwing" throws on the persisted
\* value "Bar" and is the default handler otherwise
HandlerThrows(name, prospect) ==
  name = "throwing" /\ prospect.existingValue = Str(s_Bar)

\* this.pluginConfig.conflictHandler
conflictHandler(name, prospect, prospects) ==
  CASE name = "custom" -> customConflictHandler(prospect, prospects)
    [] OTHER -> defaultConflictHandler(prospect, prospects)

\* if (finalValue) finalTranslationsForFile.set(finalValue.key, finalValue)
SetFinal(final, finalValue) ==
  IF finalValue # <<>> THEN MapSet(final, finalValue[1]) ELSE final

\* a test that sends every prospect to the handler
SameOnBothSides_never(prospect) == FALSE

\* newValue !== undefined && existingValue !== undefined && newValue === existingValue
SameOnBothSides(prospect) ==
  /\ prospect.newValue.kind # "undefined"
  /\ prospect.existingValue.kind # "undefined"
  /\ prospect.newValue = prospect.existingValue

\* the loop over the prospects: the final Map and the handler's calls
RECURSIVE ResolveProspects(_, _, _, _)
ResolveProspects(handler, prospects, i, acc) ==
  IF i > Len(prospects) THEN acc
  ELSE LET p == prospects[i]
       IN  IF SameOnBothSides(p)
             THEN ResolveProspects(handler, prospects, i + 1,
                    [acc EXCEPT !.final =
                       MapSet(@, Translation(p.key, p.newValue.val, p.source))])
           ELSE IF p.newValue.kind # "undefined" \/ p.existingValue.kind # "undefined"
             THEN IF HandlerThrows(handler, p)
                    THEN [acc EXCEPT !.threw = TRUE]
                  ELSE
                  LET finalValue == conflictHandler(handler, p, prospects)
                  IN  ResolveProspects(handler, prospects, i + 1,
                        [final |-> SetFinal(acc.final, finalValue),
                         calls |-> Append(acc.calls,
                                          [prospect |-> p, result |-> finalValue]),
                         threw |-> FALSE])
           ELSE ResolveProspects(handler, prospects, i + 1, acc)

\* a loop that starts the registry again with the keys of the file
RECURSIVE BuildContent_ownKeys(_, _, _)
BuildContent_ownKeys(sorted, i, acc) ==
  IF i > Len(sorted) THEN acc
  ELSE BuildContent_ownKeys(sorted, i + 1,
         [fileContent |-> SetWith(acc.fileContent, sorted[i].key, sorted[i].value),
          written |-> IF i = 1 THEN <<sorted[i]>> ELSE MapSet(acc.written, sorted[i])])

\* the loop over the sorted translations: the tree and the registry
RECURSIVE BuildContent(_, _, _)
BuildContent(sorted, i, acc) ==
  IF i > Len(sorted) THEN acc
  ELSE BuildContent(sorted, i + 1,
         [fileContent |-> SetWith(acc.fileContent, sorted[i].key, sorted[i].value),
          written |-> MapSet(acc.written, sorted[i])])

mergeAndBuildTranslations(handler, written, newTranslations, existingTranslationsInFile) ==
  LET prospects == buildProspectiveTranslations(newTranslations, existingTranslationsInFile)
      resolved == ResolveProspects(handler, prospects, 1,
                                   [final |-> <<>>, calls |-> <<>>, threw |-> FALSE])
      translationsSortedByKeyName == sortByKey(resolved.final)
      built == BuildContent(translationsSortedByKeyName, 1,
                            [fileContent |-> Obj(<<>>), written |-> written])
  IN  [threw |-> resolved.threw,
       content |-> Json(Stringify(built.fileContent)),
       written |-> IF resolved.threw THEN written ELSE built.written,
       prospects |-> prospects,
       final |-> resolved.final,
       calls |-> resolved.calls]

(***************************************************************************)
(* The run over the configured files.                                      *)
(***************************************************************************)
VARIABLES
  config,               \* this.files[i].config, in configuration order
  disk,                 \* the persisted content of each file
  rawContent,           \* what setRawContent was given for each file
  writtenTranslations,  \* this.writtenTranslations
  pc,                   \* where run() is
  fileIdx,              \* the file the loop of run() is at
  runNo,                \* runs started on this plugin instance
  polled,               \* the content a pending read resolves to
  recon,                \* per file: the Maps of its last reconciliation
  history,              \* per completed run: the content handed off per file
  failedAt,             \* the file whose pass threw, 0 when none did
  pluginConfig,         \* this.pluginConfig
  dnsDisk,              \* the persisted content of each default-namespace file
  dnsPass,              \* per language: the pass of generateDefaultNamespaceFile
  files,                \* the files pushed to this.files after the configured ones
  resources,            \* the resource table generateIndexFile has built
  arg,                  \* the input of a function checked on its own
  res                   \* its result

aggVars == <<pluginConfig, dnsDisk, dnsPass, files, resources>>
runVars == <<config, disk, rawContent, writtenTranslations, pc, fileIdx, runNo,
             polled, recon, history, failedAt, aggVars>>
fnVars == <<arg, res>>
vars == <<runVars, fnVars>>

FileConfig(language, fileName, translationWriter, unmatched, schemaFilter) ==
  [language |-> language, fileName |-> fileName,
   translationWriter |-> translationWriter,
   unmatchedTranslationFromExistingFileHandler |-> unmatched,
   schemaFilter |-> schemaFilter]

\* file.isFileForSchema(schema)
isFileForSchema(fileConfig, schema) == schema.id \in fileConfig.schemaFilter

\* file.config.translationWriter, or the default writer
TranslationsForSchema(fileConfig, schema, translationPath) ==
  IF fileConfig.translationWriter = "i18nTranslationWriter"
    THEN i18nTranslationWriter(schema, translationPath)
    ELSE defaultSchemaTranslationWriter(schema, translationPath)

\* the configured path of a file that sets translationPathOrGetter to a string
s_shared == <<"s", "h", "a", "r", "e", "d">>

\* typeof file.config.translationPathOrGetter === 'function'
\*   ? file.config.translationPathOrGetter(schema)
\*   : file.config.translationPathOrGetter || defaultTranslationPathOrGetter(schema)
\* "unset": not configured; "string": the string "shared"; "function": a
\* getter that returns the unit's generated name for every unit
translationPathFor(translationPathOrGetter, schema) ==
  CASE translationPathOrGetter = "function" -> <<schema.generatedName>>
    [] translationPathOrGetter = "string" -> <<s_shared>>
    [] OTHER -> defaultTranslationPathOrGetter(schema)

\* a Map that keeps the first translation set under a key
SetEntry_keepFirst(m, translation, source) ==
  IF MapHas(m, translation.key) THEN m
  ELSE Append(m, [translation EXCEPT !.source = source])

\* translation.source = schema; newTranslations.set(translation.key, translation)
SetEntry(m, translation, source) == MapSet(m, [translation EXCEPT !.source = source])

\* for (const translation of translationsForSchema || [])
RECURSIVE SetAll(_, _, _, _)
SetAll(m, translations, i, source) ==
  IF i > Len(translations) THEN m
  ELSE SetAll(SetEntry(m, translations[i], source), translations, i + 1, source)

\* the loop over this.generatedSchemas of run()
RECURSIVE GenerateTranslations(_, _, _, _, _)
GenerateTranslations(schemas, fileConfig, translationPathOrGetter, i, newTranslations) ==
  IF i > Len(schemas) THEN newTranslations
  ELSE LET schema == schemas[i]
           translationPath == translationPathFor(translationPathOrGetter, schema)
       IN  IF /\ isFileForSchema(fileConfig, schema)
              /\ translationPath # <<>>
              /\ translationPath[1] # <<>>
             THEN GenerateTranslations(schemas, fileConfig, translationPathOrGetter, i + 1,
                    SetAll(newTranslations,
                           TranslationsForSchema(fileConfig, schema, translationPath[1]),
                           1, schema.id))
             ELSE GenerateTranslations(schemas, fileConfig, translationPathOrGetter, i + 1,
                                       newTranslations)

\* the files of the run configure no translationPathOrGetter
newTranslationsFor(fileConfig) ==
  GenerateTranslations(generatedSchemas, fileConfig, "unset", 1, <<>>)

\* a read without the try: a parse failure propagates
ReadFileData_noCatch(content) == parseExistingValue(content)

\* let fileData; try { fileData = parseExistingValue(content) } catch {}
ReadFileData(content) ==
  LET parsed == parseExistingValue(content)
  IN  IF parsed.threw THEN [threw |-> FALSE, data |-> Undefined] ELSE parsed

\* const existingTranslationsInFile = gatherTranslations(fileData)
ReadExisting(content) ==
  LET fileData == ReadFileData(content)
  IN  IF fileData.threw THEN [threw |-> TRUE, map |-> <<>>]
      ELSE gatherTranslations(fileData.data)

NotSet == [set |-> FALSE, content |-> Absent]
NoRecon ==
  [done |-> FALSE, read |-> Absent, newTranslations |-> <<>>, existing |-> <<>>,
   prospects |-> <<>>, final |-> <<>>, calls |-> <<>>,
   writtenBefore |-> <<>>, writtenAfter |-> <<>>]

\* the record of a reconciliation: what was read, the Maps, the registry
\* before and after it
ReconOf(read, newTranslations, existing, merged, writtenBefore) ==
  [done |-> TRUE, read |-> read, newTranslations |-> newTranslations,
   existing |-> existing, prospects |-> merged.prospects,
   final |-> merged.final, calls |-> merged.calls,
   writtenBefore |-> writtenBefore, writtenAfter |-> merged.written]

\* this.pluginConfig.defaultNamespaceFile and .indexFile
NoDefaultNamespaceFile ==
  [set |-> FALSE, languages |-> <<>>, translationPathOrGetter |-> "default"]
DefaultNamespaceFile(languages, translationPathOrGetter) ==
  [set |-> TRUE, languages |-> languages,
   translationPathOrGetter |-> translationPathOrGetter]
PluginConfig(handler, defaultNamespaceFile, indexFile) ==
  [conflictHandler |-> handler, defaultNamespaceFile |-> defaultNamespaceFile,
   indexFile |-> indexFile]

NotBuilt == [built |-> FALSE, table |-> Obj(<<>>)]

\* a pass of generateDefaultNamespaceFile that has not started
IdlePass == [state |-> "idle", polled |-> Absent, content |-> Absent, recon |-> NoRecon]

\* no default-namespace file, no index file, the default conflict handler
PlainPlugin ==
  /\ pluginConfig = PluginConfig("default", NoDefaultNamespaceFile, FALSE)
  /\ dnsDisk = <<>>
  /\ dnsPass = <<>>
  /\ files = <<>>
  /\ resources = NotBuilt

(***************************************************************************)
(* The persisted contents a run may find.                                  *)
(***************************************************************************)
Shape(k, values, kids) == [k |-> k, values |-> values, kids |-> kids]

\* every node a position of the shape may hold; Undefined: no such property
RECURSIVE Options(_)
RECURSIVE KidSeqs(_)
Options(shape) ==
  {Undefined} \cup {Str(v) : v \in shape.values}
    \cup (IF shape.kids = <<>> THEN {} ELSE {Obj(ks) : ks \in KidSeqs(shape.kids)})

KidSeqs(shapes) ==
  IF shapes = <<>> THEN {<<>>}
  ELSE {IF n.kind = "undefined" THEN r ELSE <<Prop(Head(shapes).k, n)>> \o r :
          n \in Options(Head(shapes)), r \in KidSeqs(Tail(shapes))}

s_enumColorRED == JoinDot(JoinDot(s_enum, s_Color), s_RED)

PersistedShape ==
  << Shape(s_enum, {s_x},
       << Shape(s_Color, {s_x},
            << Shape(s_RED, {s_RED, s_Rouge, <<>>}, <<Shape(s_x, {s_x}, <<>>)>>),
               Shape(s_GREEN, {s_x}, <<>>) >>),
          Shape(s_Removed, {}, <<Shape(s_FOO, {s_Bar}, <<>>)>>) >>),
     Shape(s_enumColorRED, {s_Bar}, <<>>) >>

PersistedDocs ==
  {Obj(ks) : ks \in KidSeqs(PersistedShape)}
    \cup {Str(s_x), Null, Obj(<<Prop(s_enum, Null)>>),
          Obj(<<Prop(s_enum, Obj(<<Prop(s_Color,
             Obj(<<Prop(s_RED, Str(s_Rouge)), Prop(s_GREEN, Null)>>))>>))>>)}

PersistedContents == {Absent, EmptyText, Malformed} \cup {Json(d) : d \in PersistedDocs}

\* what the second file may hold
OtherContents ==
  {Absent, Malformed,
   Json(Obj(<<Prop(s_oneOf, Obj(<<Prop(s_Pay, Obj(<<Prop(s_card, Str(s_x))>>))>>))>>)),
   Json(Obj(<<Prop(s_oneOf, Null)>>))}

UnmatchedPolicies == {"unset", "keep", "remove", "custom"}
Writers == {"default", "i18nTranslationWriter"}
ConflictHandlers == {"default"}

Init ==
  /\ \E policy \in UnmatchedPolicies, writer \in Writers :
       config = << FileConfig("en", "colors", "default", policy, {"Color", "Obj"}),
                   FileConfig("fr", "pay", writer, "unset", {"Pay", "Color"}) >>
  /\ \E c1 \in PersistedContents, c2 \in OtherContents : disk = <<c1, c2>>
  /\ rawContent = <<NotSet, NotSet>>
  /\ writtenTranslations = <<>>
  /\ pc = "idle"
  /\ fileIdx = 0
  /\ runNo = 0
  /\ polled = Absent
  /\ recon = <<NoRecon, NoRecon>>
  /\ history = <<>>
  /\ failedAt = 0
  /\ PlainPlugin
  /\ arg = <<>>
  /\ res = <<>>

\* run() is called; the files of the run are created from the configuration
StartRun ==
  /\ pc \in {"idle", "done"}
  /\ runNo < MaxRuns
  /\ runNo' = runNo + 1
  /\ fileIdx' = 1
  /\ pc' = "poll"
  /\ rawContent' = [i \in DOMAIN config |-> NotSet]
  /\ recon' = [i \in DOMAIN config |-> NoRecon]
  /\ dnsPass' = [l \in DOMAIN dnsDisk |-> IdlePass]
  /\ files' = <<>>
  /\ resources' = NotBuilt
  /\ UNCHANGED <<config, disk, writtenTranslations, polled, history, failedAt, fnVars,
                 pluginConfig, dnsDisk>>

\* a read that sets the file's content before the file is reconciled
PollExisting_contentFirst ==
  /\ pc = "poll"
  /\ polled' = disk[fileIdx]
  /\ pc' = "await"
  /\ rawContent' = [rawContent EXCEPT ![fileIdx] = [set |-> TRUE, content |-> disk[fileIdx]]]
  /\ UNCHANGED <<config, disk, writtenTranslations, fileIdx, runNo,
                 recon, history, failedAt, fnVars, aggVars>>

\* await file.pollForExistingFileContent()
PollExisting ==
  /\ pc = "poll"
  /\ polled' = disk[fileIdx]
  /\ pc' = "await"
  /\ UNCHANGED <<config, disk, rawContent, writtenTranslations, fileIdx, runNo,
                 recon, history, failedAt, fnVars, aggVars>>

\* a pass in which a throw of the conflict handler is swallowed
PassThrows_handlerCaught(content, fileConfig) == ReadExisting(content).threw

\* a pass threw: gatherTranslations outside the try, or the conflict handler
PassThrows(content, fileConfig) ==
  LET existing == ReadExisting(content)
  IN  \/ existing.threw
      \/ mergeAndBuildTranslations(pluginConfig.conflictHandler, writtenTranslations,
                                   newTranslationsFor(fileConfig), existing.map).threw

\* a run whose loop over the files is followed by the index at once
AfterFiles_skipAggregate == IF pluginConfig.indexFile THEN "index" ELSE "build"

\* what run() does after the loop over the files
AfterFiles ==
  IF pluginConfig.defaultNamespaceFile.set /\ pluginConfig.defaultNamespaceFile.languages # <<>>
    THEN "aggregate"
  ELSE IF pluginConfig.indexFile THEN "index"
  ELSE "build"

\* the rest of the loop body, up to file.setRawContent
ReconcileFile ==
  /\ pc = "await"
  /\ ~PassThrows(polled, config[fileIdx])
  /\ LET existing == ReadExisting(polled)
     IN  /\ TRUE
         /\ LET newTranslations == newTranslationsFor(config[fileIdx])
                merged == mergeAndBuildTranslations(pluginConfig.conflictHandler,
                                                    writtenTranslations,
                                                    newTranslations, existing.map)
            IN  /\ rawContent' = [rawContent EXCEPT ![fileIdx] =
                                    [set |-> TRUE, content |-> merged.content]]
                /\ writtenTranslations' = merged.written
                /\ recon' = [recon EXCEPT ![fileIdx] =
                               ReconOf(polled, newTranslations, existing.map, merged,
                                       writtenTranslations)]
  /\ fileIdx' = fileIdx + 1
  /\ pc' = IF fileIdx = Len(config) THEN AfterFiles ELSE "poll"
  /\ UNCHANGED <<config, disk, runNo, polled, history, failedAt, fnVars, aggVars>>

\* gatherTranslations throws outside the try, or the conflict handler throws:
\* run() rejects
ReconcileThrows ==
  /\ pc = "await"
  /\ PassThrows(polled, config[fileIdx])
  /\ pc' = "failed"
  /\ failedAt' = fileIdx
  /\ UNCHANGED <<config, disk, rawContent, writtenTranslations, fileIdx, runNo,
                 polled, recon, history, fnVars, aggVars>>

\* this.buildFiles(): the content of every file of the run is written
BuildFiles ==
  /\ pc = "build"
  /\ disk' = [i \in DOMAIN disk |-> IF rawContent[i].set THEN rawContent[i].content ELSE disk[i]]
  /\ history' = Append(history, [i \in DOMAIN rawContent |-> rawContent[i].content])
  /\ pc' = "done"
  /\ dnsDisk' = [l \in DOMAIN dnsDisk |->
                   IF dnsPass[l].state = "done" THEN dnsPass[l].content ELSE dnsDisk[l]]
  /\ UNCHANGED <<config, rawContent, writtenTranslations, fileIdx, runNo, polled,
                 recon, failedAt, fnVars, pluginConfig, dnsPass, files, resources>>

Next == StartRun \/ PollExisting \/ ReconcileFile \/ ReconcileThrows \/ BuildFiles

Spec == Init /\ [][Next]_vars

(***************************************************************************)
(* Properties of the run.                                                  *)
(***************************************************************************)
\* the flat key -> value pairs read back from a file's content
Flatten(content) == Pairs(gatherTranslations(ReadFileData(content).data).map)

Output(i) == rawContent[i].content
Reconciled == {i \in DOMAIN recon : recon[i].done}
Calls == UNION {{recon[i].calls[j] : j \in DOMAIN recon[i].calls} : i \in Reconciled}

\* the same tree, whatever the order of the properties
RECURSIVE SameTree(_, _)
SameTree(t, u) ==
  /\ t.kind = u.kind
  /\ t.val = u.val
  /\ {t.kids[i].k : i \in DOMAIN t.kids} = {u.kids[i].k : i \in DOMAIN u.kids}
  /\ Len(t.kids) = Len(u.kids)
  /\ \A i \in DOMAIN t.kids : SameTree(t.kids[i].n, GetKid(u, t.kids[i].k))

\* C1: human-edit preservation. Whenever the default conflict handler is
\* given a prospect whose persisted and generated values are both defined and
\* differ, it returns a translation with the prospect's key and the persisted
\* value, the empty string included.
C1_HumanEditPreservation ==
  \A c \in Calls :
    (/\ c.prospect.existingValue.kind = "string"
     /\ c.prospect.newValue.kind = "string"
     /\ c.prospect.newValue # c.prospect.existingValue)
      => /\ c.result # <<>>
         /\ c.result[1].key = c.prospect.key
         /\ c.result[1].value = c.prospect.existingValue.val

\* a persisted empty string met a different generated value and was kept
C1_Witness ==
  \E c \in Calls :
    /\ c.prospect.existingValue = Str(<<>>)
    /\ c.prospect.newValue = Str(s_RED)
    /\ c.result # <<>>
    /\ c.result[1].value = <<>>

\* C2: regeneration with the default conflict handler never clobbers a
\* persisted value: in every reconciled file every persisted key that is also
\* generated is in the output with its persisted value, and every generated
\* key that is not persisted is in the output with its generated value.
C2_RegenerationKeepsPersisted ==
  \A i \in Reconciled :
    /\ \A k \in MapKeys(recon[i].existing) \cap MapKeys(recon[i].newTranslations) :
         <<k, MapGet(recon[i].existing, k).value>> \in Flatten(Output(i))
    /\ \A k \in MapKeys(recon[i].newTranslations) \ MapKeys(recon[i].existing) :
         <<k, MapGet(recon[i].newTranslations, k).value>> \in Flatten(Output(i))

\* the first half of C2 alone: persisted values of generated keys are kept
C2_PersistedHalf ==
  \A i \in Reconciled :
    \A k \in MapKeys(recon[i].existing) \cap MapKeys(recon[i].newTranslations) :
      <<k, MapGet(recon[i].existing, k).value>> \in Flatten(Output(i))

\* C3: new-key acceptance. Whenever the default conflict handler is given a
\* prospect that has a generated value and no persisted one, it returns a
\* translation with the prospect's key and the generated value.
C3_NewKeyAcceptance ==
  \A c \in Calls :
    (c.prospect.existingValue.kind = "undefined" /\ c.prospect.newValue.kind = "string")
      => /\ c.result # <<>>
         /\ c.result[1].key = c.prospect.key
         /\ c.result[1].value = c.prospect.newValue.val

\* GREEN is generated, not persisted, and accepted beside a persisted RED
C3_Witness ==
  \E i \in Reconciled :
    /\ MapHas(recon[i].existing, s_enumColorRED)
    /\ \E j \in DOMAIN recon[i].calls :
         /\ recon[i].calls[j].prospect.existingValue.kind = "undefined"
         /\ recon[i].calls[j].prospect.key = JoinDot(JoinDot(s_enum, s_Color), s_GREEN)
         /\ recon[i].calls[j].result = <<Translation(recon[i].calls[j].prospect.key, s_GREEN, NoSource)>>

\* C4: stale-key retention. Whenever the default conflict handler is given a
\* prospect that has a persisted value and no generated one, it returns a
\* translation with that key and the persisted value, and under the policy
\* keep (or unset) the key is in the file's output with that value.
C4_StaleKeyRetention ==
  \A i \in Reconciled :
    \A j \in DOMAIN recon[i].calls :
      LET c == recon[i].calls[j]
      IN  (c.prospect.newValue.kind = "undefined" /\ c.prospect.existingValue.kind = "string")
            => /\ c.result = <<Translation(c.prospect.key, c.prospect.existingValue.val, NoSource)>>
               /\ config[i].unmatchedTranslationFromExistingFileHandler \in {"unset", "keep"}
                    => <<c.prospect.key, c.prospect.existingValue.val>> \in Flatten(Output(i))

\* the handler's part of C4 alone
C4_HandlerPart ==
  \A c \in Calls :
    (c.prospect.newValue.kind = "undefined" /\ c.prospect.existingValue.kind = "string")
      => c.result = <<Translation(c.prospect.key, c.prospect.existingValue.val, NoSource)>>

\* the custom unmatched-key function of the configuration "custom"
customUnmatchedHandler(translation) ==
  IF translation.value = s_Bar THEN <<>> ELSE <<[translation EXCEPT !.value = s_x]>>

\* C5: the file's unmatched-key policy decides the fate of every key that is
\* persisted and not generated: kept with its persisted value under keep or
\* unset, absent from the output under remove, and replaced by the custom
\* function's result, or dropped when that is null, under a function.
C5_UnmatchedPolicy ==
  \A i \in Reconciled :
    \A k \in MapKeys(recon[i].existing) \ MapKeys(recon[i].newTranslations) :
      LET policy == config[i].unmatchedTranslationFromExistingFileHandler
          t == MapGet(recon[i].existing, k)
          keys == {kv[1] : kv \in Flatten(Output(i))}
      IN  CASE policy \in {"unset", "keep"} -> <<k, t.value>> \in Flatten(Output(i))
            [] policy = "remove" -> k \notin keys
            [] policy = "custom" ->
                 IF customUnmatchedHandler(t) = <<>>
                   THEN k \notin keys
                   ELSE <<customUnmatchedHandler(t)[1].key, customUnmatchedHandler(t)[1].value>>
                          \in Flatten(Output(i))

\* the policy remove alone
C5_RemovePart ==
  \A i \in Reconciled :
    config[i].unmatchedTranslationFromExistingFileHandler = "remove"
      => \A k \in MapKeys(recon[i].existing) \ MapKeys(recon[i].newTranslations) :
           k \notin {kv[1] : kv \in Flatten(Output(i))}

\* C6: idempotence. A run that finds the content the run before it handed
\* off, under the same schema input, hands off the same content for every file.
C6_Idempotence ==
  \A r \in 1..Len(history) :
    r + 1 \in DOMAIN history => history[r + 1] = history[r]

\* two runs completed; the first file holds a persisted value that differs
\* from the generated one and a key that is not generated
C6_Witness ==
  /\ Len(history) >= 2
  /\ pc = "done"
  /\ <<s_enumColorRED, s_Rouge>> \in Flatten(history[2][1])
  /\ \E kv \in Flatten(history[2][1]) : ~MapHas(recon[1].newTranslations, kv[1])

\* the enum units a file accepts
EnumUnitsOf(fileConfig) ==
  {generatedSchemas[n] : n \in {m \in DOMAIN generatedSchemas :
                                  /\ generatedSchemas[m].kind = "enum"
                                  /\ isFileForSchema(fileConfig, generatedSchemas[m])}}

Members(schema) == {schema.members[n] : n \in DOMAIN schema.members}
EnumKey(schema, member) == JoinDot(JoinDot(s_enum, schema.generatedName), member)

\* { enum: { Color: { RED: red, GREEN: green } } }
ColorTree(red, green) ==
  Obj(<<Prop(s_enum, Obj(<<Prop(s_Color,
        Obj(<<Prop(s_RED, Str(red)), Prop(s_GREEN, Str(green))>>))>>))>>)

\* with no prior content, every member of an accepted enum unit has exactly
\* one entry at enum.<unitName>.<memberName>, valued value(member)
EnumEntries(i, value(_)) ==
  \A schema \in EnumUnitsOf(config[i]) :
    \A member \in Members(schema) :
      {kv \in Flatten(Output(i)) : kv[1] = EnumKey(schema, member)}
        = {<<EnumKey(schema, member), value(member)>>}

C10_MalformedIsNotFatal ==
  /\ pc = "failed" => polled.kind # "malformed"
  /\ \A i \in Reconciled :
       recon[i].read.kind = "malformed" =>
         /\ recon[i].existing = <<>>
         /\ Flatten(Output(i)) = Pairs(recon[i].newTranslations)
  /\ pc \in {"build", "done"} => \A i \in DOMAIN config : rawContent[i].set

\* the first file was malformed, both files are reconciled and the run is done
C10_Witness ==
  /\ pc = "done"
  /\ recon[1].read = Malformed
  /\ recon[2].done
  /\ <<s_enumColorRED, s_RED>> \in Flatten(Output(1))
  /\ rawContent[2].set

(***************************************************************************)
(* The tree codec on its own: gatherTranslations flattens a tree, the loop *)
(* of mergeAndBuildTranslations over the sorted entries rebuilds it.       *)
(***************************************************************************)
flattenTree(tree) == gatherTranslations(tree).map

unflatten(flatMap) ==
  Stringify(BuildContent(sortByKey(flatMap), 1,
                         [fileContent |-> Obj(<<>>), written |-> <<>>]).fileContent)

s_a == <<"a">>
s_b == <<"b">>
s_y == <<"y">>
s_ab == JoinDot(s_a, s_b)
s_dotb == JoinDot(<<>>, s_b)

\* sequences of at most n members of a set, with pairwise different key(_)
DistinctSeqs(set, n, key(_)) ==
  UNION {{q \in [1..m -> set] :
            \A i, j \in 1..m : i # j => key(q[i]) # key(q[j])} : m \in 0..n}

CodecKeys == {s_a, s_b, s_ab, <<>>}
CodecBranches ==
  {Str(s_x), Str(s_y), Obj(<<>>), Obj(<<Prop(s_b, Str(s_x))>>),
   Obj(<<Prop(s_b, Obj(<<>>))>>), Obj(<<Prop(s_a, Str(s_y)), Prop(s_b, Str(s_x))>>)}
CodecTrees ==
  LET k(prop) == prop.k
  IN  {Obj(kids) : kids \in DistinctSeqs({Prop(key, n) : key \in CodecKeys, n \in CodecBranches},
                                         MaxCodecEntries, k)}

CodecFlatKeys == {s_a, s_b, s_ab, JoinDot(s_b, s_a), JoinDot(s_ab, s_a), s_dotb}
CodecFlatMaps ==
  LET k(t) == t.key
  IN  DistinctSeqs({Translation(key, v, NoSource) : key \in CodecFlatKeys, v \in {s_x, s_y}},
                   MaxCodecEntries, k)

NoResult == [done |-> FALSE]

RunIdle ==
  /\ PlainPlugin
  /\ config = <<>>
  /\ disk = <<>>
  /\ rawContent = <<>>
  /\ writtenTranslations = <<>>
  /\ pc = "idle"
  /\ fileIdx = 0
  /\ runNo = 0
  /\ polled = Absent
  /\ recon = <<>>
  /\ history = <<>>
  /\ failedAt = 0

CodecInit ==
  /\ RunIdle
  /\ arg \in {[kind |-> "tree", tree |-> t] : t \in CodecTrees}
             \cup {[kind |-> "flat", flatMap |-> m] : m \in CodecFlatMaps}
  /\ res = NoResult

\* unflatten(flatten(tree))
RoundTripTree ==
  /\ arg.kind = "tree"
  /\ ~res.done
  /\ res' = [done |-> TRUE,
             flatMap |-> flattenTree(arg.tree),
             tree |-> unflatten(flattenTree(arg.tree))]
  /\ UNCHANGED <<runVars, arg>>

\* flatten(unflatten(flatMap))
RoundTripFlat ==
  /\ arg.kind = "flat"
  /\ ~res.done
  /\ res' = [done |-> TRUE,
             tree |-> unflatten(arg.flatMap),
             flatMap |-> flattenTree(unflatten(arg.flatMap))]
  /\ UNCHANGED <<runVars, arg>>

CodecNext == RoundTripTree \/ RoundTripFlat

SpecCodec == CodecInit /\ [][CodecNext]_vars

\* one key is a strict prefix of another, as `a` of `a.b`
PrefixColliding(flatMap) ==
  \E i, j \in DOMAIN flatMap : IsPathPrefix(flatMap[i].key, flatMap[j].key)

\* every key is a non-empty name without a dot and no nested mapping is empty
RECURSIVE PlainNode(_)
PlainNode(node) ==
  node.kind = "object" =>
    /\ node.kids # <<>>
    /\ \A i \in DOMAIN node.kids :
         /\ node.kids[i].k # <<>>
         /\ ~HasDot(node.kids[i].k)
         /\ PlainNode(node.kids[i].n)
PlainTree(tree) == tree.kids = <<>> \/ PlainNode(tree)

\* no key begins with a dot (an empty first segment)
NoLeadingDot(flatMap) ==
  \A i \in DOMAIN flatMap : flatMap[i].key # <<>> => Head(flatMap[i].key) # Dot

\* C7 as amended: the round trip of the tree codec holds for the trees whose
\* nested mappings are not empty and whose keys are non-empty names without a
\* dot (the rebuilt tree is the same tree up to the order of the keys), and
\* for the flat maps whose keys are not prefix-colliding and do not begin
\* with a dot (flattening the rebuilt tree gives the same key-value pairs).
C7_CodecRoundTrip ==
  /\ (arg.kind = "tree" /\ res.done /\ PlainTree(arg.tree))
       => SameTree(res.tree, arg.tree)
  /\ (arg.kind = "flat" /\ res.done /\ ~PrefixColliding(arg.flatMap)
        /\ NoLeadingDot(arg.flatMap))
       => Pairs(res.flatMap) = Pairs(arg.flatMap)

\* a tree with a nested mapping and a leaf was flattened and rebuilt
C7_Witness ==
  /\ arg.kind = "tree"
  /\ res.done
  /\ arg.tree = Obj(<<Prop(s_b, Str(s_y)),
                      Prop(s_a, Obj(<<Prop(s_a, Str(s_y)), Prop(s_b, Str(s_x))>>))>>)
  /\ Pairs(res.flatMap) = {<<s_b, s_y>>, <<JoinDot(s_a, s_a), s_y>>, <<s_ab, s_x>>}
  /\ SameTree(res.tree, arg.tree)

\* C7 as stated: for every resource tree, rebuilding the tree from its
\* flattened map gives back the same tree, and for every flat map whose keys
\* are not prefix-colliding, flattening the rebuilt tree gives back the same
\* flat map.
C7_EveryTreeRoundTrips ==
  /\ (arg.kind = "tree" /\ res.done) => SameTree(res.tree, arg.tree)
  /\ (arg.kind = "flat" /\ res.done /\ ~PrefixColliding(arg.flatMap))
       => Pairs(res.flatMap) = Pairs(arg.flatMap)

\* the halves of C7 as stated
C7_TreeHalf == (arg.kind = "tree" /\ res.done) => SameTree(res.tree, arg.tree)
C7_FlatHalf ==
  (arg.kind = "flat" /\ res.done /\ ~PrefixColliding(arg.flatMap))
    => Pairs(res.flatMap) = Pairs(arg.flatMap)
C7_FlatWitness ==
  /\ arg.kind = "flat"
  /\ res.done
  /\ Len(arg.flatMap) = 2
  /\ ~PrefixColliding(arg.flatMap)
  /\ \E i \in DOMAIN arg.flatMap : HasDot(arg.flatMap[i].key)

(***************************************************************************)
(* The resource table of the index file.  A table is an object of          *)
(* languages whose values are objects of namespaces; a static namespace    *)
(* value is a string or an object, a generated one the name of the         *)
(* identifier the namespace file is imported under.                        *)
(***************************************************************************)
Identifier(name) == [kind |-> "identifier", val |-> name, kids |-> <<>>]

\* Object.keys(a).concat(Object.keys(b)) through a Set: first occurrences
UnionKeys(a, b) ==
  LET ka == [i \in DOMAIN a.kids |-> a.kids[i].k]
      kb == [i \in DOMAIN b.kids |-> b.kids[i].k]
  IN  ka \o SelectSeq(kb, LAMBDA k : ~HasKid(a, k))

\* x || {}
OrEmpty(node) == IF Falsy(node) THEN Obj(<<>>) ELSE node

\* the match of one namespace: the generated identifier, else the static value
MatchValue(provided, generated) ==
  IF generated.kind # "undefined" THEN Identifier(generated.val)
  ELSE IF provided.kind # "undefined" THEN provided
  ELSE Undefined

RECURSIVE MergeNamespaces(_, _, _, _, _)
MergeNamespaces(provided, generated, namespaces, i, acc) ==
  IF i > Len(namespaces) THEN acc
  ELSE LET value == MatchValue(GetKid(provided, namespaces[i]),
                               GetKid(generated, namespaces[i]))
       IN  MergeNamespaces(provided, generated, namespaces, i + 1,
             IF ~Falsy(value) THEN AssignValue(acc, namespaces[i], value) ELSE acc)

RECURSIVE MergeLanguages(_, _, _, _, _)
MergeLanguages(providedResources, generatedResources, allLanguages, i, mergedResources) ==
  IF i > Len(allLanguages) THEN mergedResources
  ELSE LET language == allLanguages[i]
           provided == OrEmpty(GetKid(providedResources, language))
           generated == OrEmpty(GetKid(generatedResources, language))
           allNamespaces == UnionKeys(provided, generated)
       IN  MergeLanguages(providedResources, generatedResources, allLanguages, i + 1,
             AssignValue(mergedResources, language,
               MergeNamespaces(provided, generated, allNamespaces, 1,
                               ObjectOf(GetKid(mergedResources, language)))))

buildResourcesObjectLiteral(providedResources, generatedResources) ==
  MergeLanguages(providedResources, generatedResources,
                 UnionKeys(providedResources, generatedResources), 1, Obj(<<>>))

s_en == <<"e", "n">>
s_fr == <<"f", "r">>
s_common == <<"c", "o", "m", "m", "o", "n">>
s_pay == <<"p", "a", "y">>
s_X == <<"X">>
s_enCommonNs == <<"e", "n", "C", "o", "m", "m", "o", "n", "N", "s">>

Languages == <<s_en, s_fr>>
Namespaces == <<s_common, s_pay>>

\* the objects over the keys (in their order) whose present keys have a
\* value of the set
RECURSIVE ObjectsOver(_, _)
ObjectsOver(keys, values) ==
  IF keys = <<>> THEN {Obj(<<>>)}
  ELSE LET rest == ObjectsOver(Tail(keys), values)
       IN  rest \cup {Obj(<<Prop(Head(keys), v)>> \o r.kids) : v \in values, r \in rest}

StaticValues == {Str(s_X), Str(<<>>), Obj(<<Prop(s_a, Str(s_x))>>)}
ProvidedTables == ObjectsOver(Languages, ObjectsOver(Namespaces, StaticValues))
GeneratedTables ==
  ObjectsOver(Languages,
              ObjectsOver(Namespaces, {Str(s_enCommonNs)}) \ {Obj(<<>>)})

ResourcesInit ==
  /\ RunIdle
  /\ arg \in {[kind |-> "resources", provided |-> p, generated |-> g] :
                p \in ProvidedTables, g \in GeneratedTables}
  /\ res = NoResult

BuildResourcesObjectLiteral ==
  /\ arg.kind = "resources"
  /\ ~res.done
  /\ res' = [done |-> TRUE,
             merged |-> buildResourcesObjectLiteral(arg.provided, arg.generated)]
  /\ UNCHANGED <<runVars, arg>>

ResourcesNext == BuildResourcesObjectLiteral

SpecResources == ResourcesInit /\ [][ResourcesNext]_vars

\* table[language][namespace], undefined when either is missing
Lookup(table, language, namespace) == GetKid(GetKid(table, language), namespace)

\* C9: resource index merge. For every (language, namespace) pair the merged
\* table holds the generated identifier when the generated table has the
\* pair (also when the static table has it too), else the static value when
\* only the static table has it, and no entry when neither has it.
C9_ResourceIndexMerge ==
  res.done =>
    \A i \in DOMAIN Languages, j \in DOMAIN Namespaces :
      LET g == Lookup(arg.generated, Languages[i], Namespaces[j])
          p == Lookup(arg.provided, Languages[i], Namespaces[j])
          m == Lookup(res.merged, Languages[i], Namespaces[j])
      IN  IF g.kind # "undefined" THEN m = Identifier(g.val)
          ELSE IF p.kind # "undefined" THEN m = p
          ELSE m = Undefined

\* the parts of C9 the code keeps: the generated identifier wins, a pair in
\* neither table is omitted, a static value that is not the empty string is
\* kept
C9_TruthyPart ==
  res.done =>
    \A i \in DOMAIN Languages, j \in DOMAIN Namespaces :
      LET g == Lookup(arg.generated, Languages[i], Namespaces[j])
          p == Lookup(arg.provided, Languages[i], Namespaces[j])
          m == Lookup(res.merged, Languages[i], Namespaces[j])
      IN  IF g.kind # "undefined" THEN m = Identifier(g.val)
          ELSE IF p.kind # "undefined" /\ ~Falsy(p) THEN m = p
          ELSE m = Undefined

\* Scenario D: static {en:{common:"X"}}, generated {en:{common:"enCommonNs"}}
C9_ScenarioD ==
  /\ res.done
  /\ arg.provided = Obj(<<Prop(s_en, Obj(<<Prop(s_common, Str(s_X))>>))>>)
  /\ arg.generated = Obj(<<Prop(s_en, Obj(<<Prop(s_common, Str(s_enCommonNs))>>))>>)
  /\ res.merged = Obj(<<Prop(s_en, Obj(<<Prop(s_common, Identifier(s_enCommonNs))>>))>>)

(***************************************************************************)
(* The default-namespace files and the index file of a run.                *)
(***************************************************************************)
s_Any == <<"A", "n", "y">>
s_colors == <<"c", "o", "l", "o", "r", "s">>
s_NS == <<"N", "S">>

\* this.definedAnySchemas
definedAnySchemas == <<s_Any>>

\* `${language}.${schemaName}`
defaultDefinedAnySchemaTranslationPathGetter(language, schemaName) ==
  <<JoinDot(language, schemaName)>>

\* a configured path getter that leaves the language out of the path
byNameTranslationPathGetter(language, schemaName) == <<schemaName>>

\* defaultNamespaceFile.translationPathOrGetter || the default getter
DefinedAnyPath(language, schemaName) ==
  IF pluginConfig.defaultNamespaceFile.translationPathOrGetter = "byName"
    THEN byNameTranslationPathGetter(language, schemaName)
    ELSE defaultDefinedAnySchemaTranslationPathGetter(language, schemaName)

\* one translation at the path, valued with the title-cased name of the unit
defaultI18nPluginDefinedAnySchemaTranslationWriter(language, schemaName, translationPath) ==
  <<Translation(translationPath, titleCaseName(schemaName), NoSource)>>

\* the loop over this.definedAnySchemas of generateDefaultNamespaceFile
RECURSIVE DefinedAnyTranslations(_, _, _)
DefinedAnyTranslations(language, i, newTranslations) ==
  IF i > Len(definedAnySchemas) THEN newTranslations
  ELSE LET schemaName == definedAnySchemas[i]
           translationPath == DefinedAnyPath(language, schemaName)
           translation ==
             IF translationPath # <<>> /\ translationPath[1] # <<>>
               THEN defaultI18nPluginDefinedAnySchemaTranslationWriter(
                      language, schemaName, translationPath[1])
               ELSE <<>>
       IN  DefinedAnyTranslations(language, i + 1,
             IF translation # <<>> THEN MapSet(newTranslations, translation[1])
             ELSE newTranslations)

\* the reconciliation of one pass, against a registry
PassMerge(language, content, written) ==
  mergeAndBuildTranslations(pluginConfig.conflictHandler, written,
                            DefinedAnyTranslations(language, 1, <<>>),
                            ReadExisting(content).map)

AggregateLanguages == pluginConfig.defaultNamespaceFile.languages

\* what run() does after generateDefaultNamespaceFiles
AfterAggregate == IF pluginConfig.indexFile THEN "index" ELSE "build"

\* Promise.all(languages.map(generateDefaultNamespaceFile)): every pass
\* creates its file and runs up to its await of the existing content
StartAggregate ==
  /\ pc = "aggregate"
  /\ dnsPass' = [l \in DOMAIN dnsPass |->
                   [dnsPass[l] EXCEPT !.state = "await", !.polled = dnsDisk[l]]]
  /\ pc' = "passes"
  /\ UNCHANGED <<config, disk, rawContent, writtenTranslations, fileIdx, runNo, polled,
                 recon, history, failedAt, fnVars, pluginConfig, dnsDisk, files, resources>>

\* a pass went wrong after its read: gatherTranslations or the handler threw
AggregatePassThrows(l) ==
  \/ ReadExisting(dnsPass[l].polled).threw
  \/ PassMerge(AggregateLanguages[l], dnsPass[l].polled, writtenTranslations).threw

\* the read of a pass resolves: the rest of the pass runs to its end.  A pass
\* still runs when Promise.all has rejected on another one.
ResolvePass(l) ==
  /\ pc = "passes" \/ (pc = "failed" /\ failedAt > Len(config))
  /\ dnsPass[l].state = "await"
  /\ ~AggregatePassThrows(l)
  /\ LET existing == ReadExisting(dnsPass[l].polled)
         newTranslations == DefinedAnyTranslations(AggregateLanguages[l], 1, <<>>)
         merged == PassMerge(AggregateLanguages[l], dnsPass[l].polled, writtenTranslations)
         after == [dnsPass EXCEPT ![l] =
                     [state |-> "done", polled |-> dnsPass[l].polled,
                      content |-> merged.content,
                      recon |-> ReconOf(dnsPass[l].polled, newTranslations,
                                        existing.map, merged, writtenTranslations)]]
     IN  /\ dnsPass' = after
         /\ writtenTranslations' = merged.written
         /\ files' = Append(files, AggregateLanguages[l])
         /\ pc' = IF pc = "passes" /\ \A m \in DOMAIN after : after[m].state = "done"
                    THEN AfterAggregate ELSE pc
  /\ UNCHANGED <<config, disk, rawContent, fileIdx, runNo, polled, recon, history,
                 failedAt, fnVars, pluginConfig, dnsDisk, resources>>

\* a pass throws: Promise.all rejects and run() with it
PassThrowsInAggregate(l) ==
  /\ pc = "passes" \/ (pc = "failed" /\ failedAt > Len(config))
  /\ dnsPass[l].state = "await"
  /\ AggregatePassThrows(l)
  /\ dnsPass' = [dnsPass EXCEPT ![l].state = "failed"]
  /\ pc' = "failed"
  /\ failedAt' = IF pc = "failed" THEN failedAt ELSE Len(config) + l
  /\ UNCHANGED <<config, disk, rawContent, writtenTranslations, fileIdx, runNo, polled,
                 recon, history, fnVars, pluginConfig, dnsDisk, files, resources>>

\* the first letter in upper case, the others in lower case
Capitalized(word) ==
  IF word = <<>> THEN <<>>
  ELSE <<toUpperChar(Head(word))>> \o toLowerCase(Tail(word))

\* the words of change-case: split at a separator and before an upper-case
\* letter that follows a lower-case one
Separators == {"_", "-", ".", " "}
RECURSIVE CaseWords(_, _)
CaseWords(s, word) ==
  IF s = <<>> THEN (IF word = <<>> THEN <<>> ELSE <<word>>)
  ELSE IF Head(s) \in Separators
    THEN (IF word = <<>> THEN <<>> ELSE <<word>>) \o CaseWords(Tail(s), <<>>)
  ELSE IF word # <<>> /\ Head(s) \in UpperCase /\ word[Len(word)] \notin UpperCase
    THEN <<word>> \o CaseWords(Tail(s), <<Head(s)>>)
  ELSE CaseWords(Tail(s), Append(word, Head(s)))

RECURSIVE Concat(_)
Concat(words) == IF words = <<>> THEN <<>> ELSE Head(words) \o Concat(Tail(words))

\* change-case camelCase: the first word in lower case, the others capitalised
camelCase(s) ==
  LET ws == CaseWords(s, <<>>)
  IN  Concat([i \in DOMAIN ws |-> IF i = 1 THEN toLowerCase(ws[i]) ELSE Capitalized(ws[i])])

\* camelCase(`${language}_${namespaceName}_NS`)
resourceSpecifier(language, namespaceName) ==
  camelCase(language \o <<"_">> \o namespaceName \o <<"_">> \o s_NS)

\* the text of the strings of a file configuration
Text(name) ==
  CASE name = "en" -> s_en
    [] name = "fr" -> s_fr
    [] name = "colors" -> s_colors
    [] name = "pay" -> s_pay

\* this.files.filter((file) => file.getHasContent()): language and namespace
\* name of every file with content, in the order of this.files
FilesToAdd ==
  LET configured == [i \in DOMAIN config |->
                       [language |-> Text(config[i].language),
                        namespaceName |-> Text(config[i].fileName),
                        hasContent |-> rawContent[i].set]]
      pushed == [j \in DOMAIN files |->
                   [language |-> files[j], namespaceName |-> s_common,
                    hasContent |-> TRUE]]
  IN  SelectSeq(configured \o pushed, LAMBDA f : f.hasContent)

\* resourcesByLanguageAndNamespace
RECURSIVE GeneratedResources(_, _, _)
GeneratedResources(filesToAdd, i, table) ==
  IF i > Len(filesToAdd) THEN table
  ELSE LET f == filesToAdd[i]
           languageResources == ObjectOf(GetKid(table, f.language))
       IN  GeneratedResources(filesToAdd, i + 1,
             AssignValue(table, f.language,
               AssignValue(languageResources, f.namespaceName,
                           Str(resourceSpecifier(f.language, f.namespaceName)))))

\* generateIndexFile: the resource table is built from the files with
\* content, the index file is pushed to this.files
GenerateIndexFile ==
  /\ pc = "index"
  /\ resources' = [built |-> TRUE,
                   table |-> buildResourcesObjectLiteral(
                               Obj(<<>>), GeneratedResources(FilesToAdd, 1, Obj(<<>>)))]
  /\ files' = Append(files, <<"i", "n", "d", "e", "x">>)
  /\ pc' = "build"
  /\ UNCHANGED <<config, disk, rawContent, writtenTranslations, fileIdx, runNo, polled,
                 recon, history, failedAt, fnVars, pluginConfig, dnsDisk, dnsPass>>

RunNext ==
  \/ Next
  \/ StartAggregate
  \/ \E l \in DOMAIN dnsPass : ResolvePass(l)
  \/ \E l \in DOMAIN dnsPass : PassThrowsInAggregate(l)
  \/ GenerateIndexFile

\* the configurations and persisted contents of the runs with a default
\* namespace, an index file and configured handlers
RunHandlers == {"default", "custom", "throwing"}
RunAggregates ==
  {NoDefaultNamespaceFile,
   DefaultNamespaceFile(Languages, "default"),
   DefaultNamespaceFile(Languages, "byName")}
RunContents ==
  {Absent,
   Json(ColorTree(s_Rouge, s_GREEN)),
   Json(ColorTree(s_RED, s_GREEN)),
   Json(Obj(<<Prop(s_enum, Obj(<<Prop(s_Removed, Obj(<<Prop(s_FOO, Str(s_Bar))>>))>>))>>)),
   Json(Obj(<<Prop(s_oneOf, Obj(<<Prop(s_Pay, Obj(<<Prop(s_card, Str(s_x))>>))>>))>>))}
RunOtherContents ==
  {Absent, Json(ColorTree(s_Bar, s_GREEN))}
\* what the default-namespace file of a language may hold
AggregateContents(language, value) ==
  {Absent,
   Json(Obj(<<Prop(s_Any, Str(value))>>)),
   Json(Obj(<<Prop(language, Obj(<<Prop(s_Any, Str(s_Bar))>>))>>))}

RunInit ==
  /\ config = << FileConfig("en", "colors", "default", "unset", {"Color", "Obj"}),
                 FileConfig("fr", "pay", "default", "unset", {"Pay", "Color"}) >>
  /\ \E c1 \in RunContents, c2 \in RunOtherContents : disk = <<c1, c2>>
  /\ rawContent = <<NotSet, NotSet>>
  /\ writtenTranslations = <<>>
  /\ pc = "idle"
  /\ fileIdx = 0
  /\ runNo = 0
  /\ polled = Absent
  /\ recon = <<NoRecon, NoRecon>>
  /\ history = <<>>
  /\ failedAt = 0
  /\ \E handler \in RunHandlers, aggregate \in RunAggregates, indexFile \in BOOLEAN :
       pluginConfig = PluginConfig(handler, aggregate, indexFile)
  /\ IF pluginConfig.defaultNamespaceFile.set
       THEN \E d1 \in AggregateContents(s_en, s_x), d2 \in AggregateContents(s_fr, s_y) :
              dnsDisk = <<d1, d2>>
       ELSE dnsDisk = <<>>
  /\ dnsPass = [l \in DOMAIN dnsDisk |-> IdlePass]
  /\ files = <<>>
  /\ resources = NotBuilt
  /\ arg = <<>>
  /\ res = <<>>

SpecRun == RunInit /\ [][RunNext]_vars

(***************************************************************************)
(* The state a plugin reports: getState() is buildState of the registry.   *)
(***************************************************************************)
\* the enum units the generator derived as helper types of one-of units
DerivedHelperEnums == {}

\* rawSchema.enum.derivedHelperType: <<>> when nullish
derivedHelperType(schema) ==
  IF schema.id \in DerivedHelperEnums THEN <<"oneOf">> ELSE <<>>

NoProvenance == [kind |-> "none", fullGrpcName |-> "", generatedName |-> <<>>, values |-> <<>>]
Provenance(kind, schema) ==
  [kind |-> kind, fullGrpcName |-> schema.id, generatedName |-> schema.generatedName,
   values |-> schema.members]

\* the match of buildState on value.source: a source with value names and
\* rawSchema.enum is described as enum, or as oneOf when it is a derived
\* helper type; any other source, and no source, is left out
SourceDescription(source) ==
  IF source = NoSource THEN NoProvenance
  ELSE LET schema == SchemaById(source)
       IN  IF schema.kind = "enum" /\ derivedHelperType(schema) = <<>>
             THEN Provenance("enum", schema)
           ELSE IF schema.kind = "enum" /\ derivedHelperType(schema) # <<>>
             THEN Provenance("oneOf", schema)
           ELSE NoProvenance

buildState(translationsWritten) ==
  [i \in DOMAIN translationsWritten |->
     [key |-> translationsWritten[i].key,
      value |-> translationsWritten[i].value,
      source |-> SourceDescription(translationsWritten[i].source)]]

getState == buildState(writtenTranslations)

\* C11: the registry records every translation persisted. When a run is
\* complete, for every file reconciled in it and every key of that file's
\* final flat map, the registry holds an entry for the key whose value is the
\* value persisted in that file, also when several files are reconciled.
C11_RegistryRecordsPersisted ==
  pc = "done" =>
    \A i \in Reconciled :
      \A j \in DOMAIN recon[i].final :
        /\ MapHas(writtenTranslations, recon[i].final[j].key)
        /\ MapGet(writtenTranslations, recon[i].final[j].key).value = recon[i].final[j].value

\* what holds of the registry: right after a file's pass it holds every key
\* of that file's final flat map with that file's value
C11_PerPass ==
  \A i \in Reconciled :
    \A j \in DOMAIN recon[i].final :
      /\ MapHas(recon[i].writtenAfter, recon[i].final[j].key)
      /\ MapGet(recon[i].writtenAfter, recon[i].final[j].key) = recon[i].final[j]

\* C12: the registry is empty at the start of every run, and the state
\* reported after a run holds only keys persisted during that run, also when
\* the plugin instance has completed an earlier run.
C12_RegistryPerRun ==
  /\ (pc = "poll" /\ fileIdx = 1) => writtenTranslations = <<>>
  /\ pc = "done" =>
       \A j \in DOMAIN getState :
         \E i \in Reconciled : MapHas(recon[i].final, getState[j].key)

\* the second half of C12 alone
C12_ReportedPart ==
  pc = "done" =>
    \A j \in DOMAIN getState :
      \E i \in Reconciled : MapHas(recon[i].final, getState[j].key)

\* the schema unit a written key originates from, <<>> when none
OriginOf(key) ==
  LET origins == {MapGet(recon[i].newTranslations, key).source :
                    i \in {r \in Reconciled : MapHas(recon[r].newTranslations, key)}}
  IN  IF origins = {} THEN <<>> ELSE <<CHOOSE o \in origins : TRUE>>

\* C15: in the state of a complete run, every written translation that
\* originates from a schema unit carries the description of the unit's kind
\* (enum, oneOf or polymorph) with the unit's name and member list, and only
\* the translations without a schema source carry none.
C15_Provenance ==
  pc = "done" =>
    \A j \in DOMAIN getState :
      LET origin == OriginOf(getState[j].key)
      IN  IF origin = <<>> THEN getState[j].source = NoProvenance
          ELSE getState[j].source =
                 Provenance(SchemaById(origin[1]).kind, SchemaById(origin[1]))

\* what holds of the provenance: an entry kept through the equal-values path
\* carries the description of its enum unit
C15_EqualPathKeepsEnum ==
  pc = "done" =>
    \A j \in DOMAIN writtenTranslations :
      (writtenTranslations[j].source # NoSource
         /\ SchemaById(writtenTranslations[j].source).kind = "enum")
        => getState[j].source.kind = "enum"

(***************************************************************************)
(* The passes of the default-namespace files, one after another.           *)
(***************************************************************************)
AggregatePasses == DOMAIN dnsPass
AggregateDone ==
  /\ pluginConfig.defaultNamespaceFile.set
  /\ \A l \in AggregatePasses : dnsPass[l].state = "done"

\* the registry the passes started from: the one the last configured file left
AggregateBase == recon[Len(config)].writtenAfter

\* the registry after the passes of the languages in the given order
RECURSIVE SequentialRegistry(_, _, _)
SequentialRegistry(order, i, written) ==
  IF i > Len(order) THEN written
  ELSE SequentialRegistry(order, i + 1,
         PassMerge(AggregateLanguages[order[i]], dnsPass[order[i]].polled, written).written)

PassOrders ==
  {order \in [AggregatePasses -> AggregatePasses] :
     \A a, b \in AggregatePasses : a # b => order[a] # order[b]}

Entries(written) == {written[j] : j \in DOMAIN written}

\* C13: the concurrent passes of the default-namespace files are race-free.
\* For every interleaving of the passes, the content of each language's file
\* and the final registry are the same as when the languages are processed
\* one after another, in any order.
C13_PassesRaceFree ==
  AggregateDone =>
    \A order \in PassOrders :
      /\ \A l \in AggregatePasses :
           dnsPass[l].content =
             PassMerge(AggregateLanguages[l], dnsPass[l].polled, <<>>).content
      /\ Entries(writtenTranslations) = Entries(SequentialRegistry(order, 1, AggregateBase))

\* what holds of the passes: the content of each language's file does not
\* depend on the interleaving
C13_ContentPart ==
  AggregateDone =>
    \A l \in AggregatePasses :
      dnsPass[l].content =
        PassMerge(AggregateLanguages[l], dnsPass[l].polled, <<>>).content

\* what holds of the passes: the registry is the one of the order in which
\* the reads completed
C13_CompletionOrder ==
  AggregateDone =>
    \E order \in PassOrders :
      /\ \A a \in AggregatePasses : files[a] = AggregateLanguages[order[a]]
      /\ writtenTranslations = SequentialRegistry(order, 1, AggregateBase)

\* every reconciliation of the run so far: configured files and passes
Reconciliations ==
  {recon[i] : i \in Reconciled}
    \cup {dnsPass[l].recon : l \in {a \in DOMAIN dnsPass : dnsPass[a].state = "done"}}

\* the prospect is one the handler "throwing" throws on
ThrownOn(prospect) ==
  /\ pluginConfig.conflictHandler = "throwing"
  /\ prospect.existingValue = Str(s_Bar)
  /\ prospect.newValue # prospect.existingValue

\* C14: when the conflict handler throws while a file is reconciled, the
\* error propagates out of the run: no reconciliation completes with a
\* prospect the handler throws on, and a failed run hands off no file, the
\* ones reconciled before the failure included.
C14_HandlerThrowAbortsRun ==
  /\ \A r \in Reconciliations :
       \A j \in DOMAIN r.prospects : ~ThrownOn(r.prospects[j])
  /\ pc = "failed" => Len(history) < runNo
  /\ Len(history) <= runNo

\* the handler threw on the second file after the first was reconciled
C14_Witness ==
  /\ pc = "failed"
  /\ failedAt = 2
  /\ pluginConfig.conflictHandler = "throwing"
  /\ recon[1].done
  /\ rawContent[1].set
  /\ ~ReadExisting(polled).threw
  /\ disk[1] = Absent
  /\ history = <<>>

\* the passes of the aggregator that have started
StartedPasses == {l \in DOMAIN dnsPass : dnsPass[l].state # "idle"}

\* the index holds the identifier of the resource of a produced file
Indexed(language, namespaceName) ==
  Lookup(resources.table, language, namespaceName)
    = Identifier(resourceSpecifier(language, namespaceName))

PendingPasses == {l \in DOMAIN dnsPass : dnsPass[l].state \in {"idle", "await"}}

\* the files and passes that are before the end of their read have changed
\* nothing, and content is set only on a reconciled file
C17_State ==
  /\ pc \in {"poll", "await"} =>
       /\ ~recon[fileIdx].done
       /\ ~rawContent[fileIdx].set
  /\ \A i \in DOMAIN rawContent : rawContent[i].set => recon[i].done
  /\ \A l \in PendingPasses :
       /\ ~dnsPass[l].recon.done
       /\ dnsPass[l].content = Absent
       /\ \A j \in DOMAIN files : files[j] # AggregateLanguages[l]
  /\ \A l \in DOMAIN dnsPass : dnsPass[l].state = "done" => dnsPass[l].recon.done

\* the step up to the suspending read changes no shared state
C17_Step ==
  pc \in {"poll", "aggregate"} => UNCHANGED <<writtenTranslations, files, rawContent>>

\* C17: within each file's pass the suspending read of the existing content
\* comes before the pass changes the registry, the file list or any content,
\* and the file's content is set only after its own reconciliation.
C17_ReadBeforeMutation == []C17_State /\ [][C17_Step]_vars

\* one pass of the aggregator is complete while the other still awaits its read
C17_Witness ==
  /\ pc = "passes"
  /\ DOMAIN dnsPass = {1, 2}
  /\ dnsPass[1].state = "await"
  /\ dnsPass[2].state = "done"
  /\ writtenTranslations # <<>>
  /\ \A i \in DOMAIN config : rawContent[i].set

\* the flat maps with the key-to-value pairs of a flat map, in any order
Reorderings(flatMap) ==
  {m \in CodecFlatMaps : Len(m) = Len(flatMap) /\ Pairs(m) = Pairs(flatMap)}

\* C18: serialization is independent of insertion order. Two final flat maps
\* with the same key-to-value pairs, built in any insertion order, serialize
\* to the same content.
C18_InsertionOrderIndependent ==
  (arg.kind = "flat" /\ res.done) =>
    \A m \in Reorderings(arg.flatMap) : unflatten(m) = res.tree

\* a flat map of two entries inserted in descending order of their keys
C18_Witness ==
  /\ arg.kind = "flat"
  /\ res.done
  /\ Len(arg.flatMap) = 2
  /\ StrLess(arg.flatMap[2].key, arg.flatMap[1].key)
  /\ Cardinality(Reorderings(arg.flatMap)) = 2

\* the prospects of a reconciliation whose two values are present and equal
EqualProspects(r) ==
  {r.prospects[j] : j \in {k \in DOMAIN r.prospects :
      /\ r.prospects[k].newValue.kind = "string"
      /\ r.prospects[k].existingValue = r.prospects[k].newValue}}

\* C19: for every prospect whose generated and persisted values are both
\* present and equal, the conflict handler, default or custom, is not
\* invoked, and the final flat map and the registry after the pass hold the
\* key with that value and the prospect's source.
C19_EqualValuesBypassHandler ==
  \A r \in Reconciliations :
    \A p \in EqualProspects(r) :
      /\ \A c \in DOMAIN r.calls : r.calls[c].prospect.key # p.key
      /\ MapHas(r.final, p.key)
      /\ MapGet(r.final, p.key) = Translation(p.key, p.newValue.val, p.source)
      /\ MapHas(r.writtenAfter, p.key)
      /\ MapGet(r.writtenAfter, p.key) = Translation(p.key, p.newValue.val, p.source)

\* a file whose persisted GREEN equals the generated one, reconciled under a
\* custom handler that was called for another key of the file
C19_Witness ==
  /\ pluginConfig.conflictHandler = "custom"
  /\ \E i \in Reconciled :
       /\ recon[i].calls # <<>>
       /\ \E p \in EqualProspects(recon[i]) :
            /\ p.newValue = Str(s_GREEN)
            /\ p.source # NoSource
            /\ MapGet(recon[i].final, p.key).source = p.source

\* every completed pass of the run with the content it set
CompletedPasses ==
  {[recon |-> recon[i], content |-> rawContent[i].content] : i \in Reconciled}
    \cup {[recon |-> dnsPass[l].recon, content |-> dnsPass[l].content] :
            l \in {a \in DOMAIN dnsPass : dnsPass[a].state = "done"}}

\* the keys read back from a file's content
KeysOf(content) == {pair[1] : pair \in Flatten(content)}

\* the entry of a key in a registry, <<>> when it has none
EntryOf(written, key) == IF MapHas(written, key) THEN <<MapGet(written, key)>> ELSE <<>>

\* C20: for every prospect delegated to the conflict handler, a null result
\* leaves the prospect's key out of the file's output and out of the
\* registry, and a non-null result is what is written for it, in the final
\* flat map and in the registry.
C20_HandlerResultDecides ==
  \A q \in CompletedPasses :
    \A j \in DOMAIN q.recon.calls :
      LET c == q.recon.calls[j]
      IN  IF c.result = <<>>
            THEN /\ ~MapHas(q.recon.final, c.prospect.key)
                 /\ c.prospect.key \notin KeysOf(q.content)
                 /\ ~MapHas(writtenTranslations, c.prospect.key)
            ELSE /\ EntryOf(q.recon.final, c.result[1].key) = c.result
                 /\ EntryOf(q.recon.writtenAfter, c.result[1].key) = c.result

\* what holds of one pass: a null result leaves the key out of the final
\* flat map and of the content and the pass leaves the key's registry entry
\* as it was, a non-null result is in the final flat map and in the registry
C20_PerPass ==
  \A q \in CompletedPasses :
    \A j \in DOMAIN q.recon.calls :
      LET c == q.recon.calls[j]
      IN  IF c.result = <<>>
            THEN /\ ~MapHas(q.recon.final, c.prospect.key)
                 /\ c.prospect.key \notin KeysOf(q.content)
                 /\ EntryOf(q.recon.writtenAfter, c.prospect.key)
                      = EntryOf(q.recon.writtenBefore, c.prospect.key)
            ELSE /\ EntryOf(q.recon.final, c.result[1].key) = c.result
                 /\ EntryOf(q.recon.writtenAfter, c.result[1].key) = c.result

\* the key a pass dropped on a null result is in the registry of the run
C20_DroppedKeyInRegistry ==
  \E q \in CompletedPasses :
    \E j \in DOMAIN q.recon.calls :
      /\ q.recon.calls[j].result = <<>>
      /\ MapHas(writtenTranslations, q.recon.calls[j].prospect.key)

(***************************************************************************)
(* The prospect set and the generated set of a pass.                       *)
(***************************************************************************)
\* the value a flat map has for a key, absent when it has none
SideValue(flatMap, key) ==
  IF key \in MapKeys(flatMap)
    THEN Str((CHOOSE t \in {flatMap[i] : i \in DOMAIN flatMap} : t.key = key).value)
    ELSE Undefined

\* C21: for all generated and persisted flat maps the prospect set has
\* exactly one prospect per key of the union of their keys; a prospect's
\* newValue (existingValue) is the generated (persisted) value of its key
\* and is absent exactly when the key is missing on that side, so that no
\* prospect has both values absent.
C21_OneProspectPerKey ==
  \A i \in Reconciled :
    LET generated == recon[i].newTranslations
        existing == recon[i].existing
        prospects == recon[i].prospects
    IN  /\ {prospects[j].key : j \in DOMAIN prospects}
             = MapKeys(generated) \cup MapKeys(existing)
        /\ \A j, k \in DOMAIN prospects : prospects[j].key = prospects[k].key => j = k
        /\ \A j \in DOMAIN prospects :
             /\ prospects[j].newValue = SideValue(generated, prospects[j].key)
             /\ prospects[j].existingValue = SideValue(existing, prospects[j].key)
             /\ (prospects[j].newValue = Undefined)
                  <=> (prospects[j].key \notin MapKeys(generated))
             /\ (prospects[j].existingValue = Undefined)
                  <=> (prospects[j].key \notin MapKeys(existing))
             /\ ~(prospects[j].newValue = Undefined /\ prospects[j].existingValue = Undefined)

\* a pass with a key on both sides, a key that is only generated and a key
\* that is only persisted, the persisted empty string among the values
C21_Witness ==
  \E i \in Reconciled :
    /\ (MapKeys(recon[i].newTranslations) \cap MapKeys(recon[i].existing)) # {}
    /\ (MapKeys(recon[i].newTranslations) \ MapKeys(recon[i].existing)) # {}
    /\ (MapKeys(recon[i].existing) \ MapKeys(recon[i].newTranslations)) # {}
    /\ \E j \in DOMAIN recon[i].prospects : recon[i].prospects[j].existingValue = Str(<<>>)

(***************************************************************************)
(* The generated set of one pass, on its own: the schema units a file is   *)
(* given, in iteration order, its path getter, its writer and its filter.  *)
(***************************************************************************)
s_Tone == <<"T", "o", "n", "e">>
s_Event == <<"E", "v", "e", "n", "t">>

\* schema units of the kinds the generator produces; Tone shares the member
\* RED with Color, Event is a polymorphic interface
GenerateUnits ==
  {Schema("Color", "enum", s_Color, <<s_RED, s_GREEN>>),
   Schema("Tone", "enum", s_Tone, <<s_RED>>),
   Schema("Pay", "oneOf", s_Pay, <<s_card>>),
   Schema("Event", "polymorph", s_Event, <<s_card, s_RED>>),
   Schema("Obj", "object", <<"O", "b", "j">>, <<>>)}
GenerateSchemas ==
  LET id(schema) == schema.id
  IN  DistinctSeqs(GenerateUnits, MaxUnits, id)
GenerateFilters ==
  {{u.id : u \in GenerateUnits}, {u.id : u \in GenerateUnits} \ {"Tone"}}
GenerateInputs ==
  {[kind |-> "generate", schemas |-> schemas, translationPathOrGetter |-> getter,
    fileConfig |-> FileConfig("en", "colors", writer, "unset", filter)] :
     schemas \in GenerateSchemas, getter \in {"unset", "string", "function"},
     writer \in {"default", "i18nTranslationWriter"}, filter \in GenerateFilters}

GenerateInit ==
  /\ RunIdle
  /\ arg \in GenerateInputs
  /\ res = NoResult

\* the loop of run() that fills newTranslations for one file
GenerateForFile ==
  /\ arg.kind = "generate"
  /\ ~res.done
  /\ res' = [done |-> TRUE,
             newTranslations |-> GenerateTranslations(arg.schemas, arg.fileConfig,
                                                      arg.translationPathOrGetter, 1, <<>>)]
  /\ UNCHANGED <<runVars, arg>>

GenerateNext == GenerateForFile

SpecGenerate == GenerateInit /\ [][GenerateNext]_vars

\* what the writer of the file emits for the i-th unit, with the unit as source
EmittedBy(i) ==
  LET schema == arg.schemas[i]
      path == translationPathFor(arg.translationPathOrGetter, schema)
  IN  IF schema.id \in arg.fileConfig.schemaFilter /\ path # <<>>
        THEN LET out == TranslationsForSchema(arg.fileConfig, schema, path[1])
             IN  [j \in DOMAIN out |-> Translation(out[j].key, out[j].value, schema.id)]
        ELSE <<>>

\* every translation emitted in the pass, in schema iteration order
RECURSIVE EmittedUpTo(_)
EmittedUpTo(i) == IF i = 0 THEN <<>> ELSE EmittedUpTo(i - 1) \o EmittedBy(i)
Emitted == EmittedUpTo(Len(arg.schemas))

\* C22: when several schema units' writers emit the same key within one
\* file's pass, the generated set holds the translation emitted last in
\* schema iteration order, and it holds exactly one translation per distinct
\* key.
C22_LastWriteWins ==
  (arg.kind = "generate" /\ res.done) =>
    LET generated == res.newTranslations
    IN  /\ MapKeys(generated) = {Emitted[j].key : j \in DOMAIN Emitted}
        /\ \A j, k \in DOMAIN generated : generated[j].key = generated[k].key => j = k
        /\ \A j \in DOMAIN Emitted :
             (\A k \in DOMAIN Emitted : Emitted[k].key = Emitted[j].key => k <= j)
               => \E g \in DOMAIN generated : generated[g] = Emitted[j]

\* two units emitted the same key in one pass
C22_Witness ==
  /\ arg.kind = "generate"
  /\ res.done
  /\ \E j, k \in DOMAIN Emitted :
       /\ j < k
       /\ Emitted[j].key = Emitted[k].key
       /\ Emitted[j].source # Emitted[k].source

s_polymorph == <<"p", "o", "l", "y", "m", "o", "r", "p", "h">>

\* the prefix of a recognized kind
KindPrefix(kind) ==
  CASE kind = "enum" -> s_enum
    [] kind = "oneOf" -> s_oneOf
    [] kind = "polymorph" -> s_polymorph

\* the keys a unit contributed to the generated set
KeysFrom(unit) ==
  {res.newTranslations[j].key :
     j \in {k \in DOMAIN res.newTranslations : res.newTranslations[k].source = unit.id}}

\* the default path getter knows the kinds of a set: it returns the kind's
\* prefix joined with the generated name for a unit of these kinds, absent
\* for any other, and a unit with an absent path contributes no key
PathGetterKnows(kinds) ==
  (arg.kind = "generate" /\ res.done /\ arg.translationPathOrGetter = "unset") =>
    \A i \in DOMAIN arg.schemas :
      LET unit == arg.schemas[i]
          path == defaultTranslationPathOrGetter(unit)
      IN  /\ (path # <<>>) <=> (unit.kind \in kinds)
          /\ path # <<>> => path[1] = JoinDot(KindPrefix(unit.kind), unit.generatedName)
          /\ path = <<>> => KeysFrom(unit) = {}

\* C23: the default path getter returns a path for a schema unit exactly
\* when the unit's kind is enum, one-of or polymorphic-interface, the path
\* being the kind's prefix joined with the unit's generated name; for any
\* other unit it returns absent, and a unit with an absent path contributes
\* no generated key to the file.
C23_DefaultPathGetter == PathGetterKnows({"enum", "oneOf", "polymorph"})

\* what holds: the recognized kinds are enum and one-of
C23_TwoKinds == PathGetterKnows({"enum", "oneOf"})

\* a polymorphic interface given to a file whose writer has a case for it
\* contributed no key
C23_PolymorphSkipped ==
  /\ arg.kind = "generate"
  /\ res.done
  /\ arg.translationPathOrGetter = "unset"
  /\ arg.fileConfig.translationWriter = "i18nTranslationWriter"
  /\ \E i \in DOMAIN arg.schemas :
       /\ arg.schemas[i].kind = "polymorph"
       /\ arg.schemas[i].id \in arg.fileConfig.schemaFilter
       /\ KeysFrom(arg.schemas[i]) = {}

(***************************************************************************)
(* The index artifact, on its own: generateIndexFile over the files of the *)
(* plugin, the index file configuration and the default-namespace          *)
(* configuration.  An expression is an identifier or a call of a method of *)
(* an expression with one identifier as argument.                          *)
(***************************************************************************)
s_json == <<".", "j", "s", "o", "n">>
s_i18n == <<"i", "1", "8", "n">>
s_use == <<"u", "s", "e">>
s_init == <<"i", "n", "i", "t">>
s_i18nOpts == <<"i", "1", "8", "n", "O", "p", "t", "s">>
s_I18nNamespaces ==
  <<"I", "1", "8", "n", "N", "a", "m", "e", "s", "p", "a", "c", "e", "s">>
s_colorsJson == s_colors \o s_json
s_payXJson == <<"p", "a", "y", "_", "x">> \o s_json
s_commonJson == s_common \o s_json
s_initReactI18next ==
  <<"i", "n", "i", "t", "R", "e", "a", "c", "t", "I", "1", "8", "n", "e", "x", "t">>
s_backend == <<"b", "a", "c", "k", "e", "n", "d">>

\* the first place where a pattern occurs in a string, 0 when nowhere
IndexOf(str, pattern) ==
  LET places == {i \in 1..(Len(str) - Len(pattern) + 1) :
                   SubSeq(str, i, i + Len(pattern) - 1) = pattern}
  IN  IF places = {} THEN 0 ELSE CHOOSE i \in places : \A j \in places : i <= j

\* str.replace(pattern, ''): the first occurrence is removed
RemoveFirst(str, pattern) ==
  LET at == IndexOf(str, pattern)
  IN  IF at = 0 THEN str
      ELSE SubSeq(str, 1, at - 1) \o SubSeq(str, at + Len(pattern), Len(str))

\* camelCase(file.config.fileName.replace('.json', ''))
defaultNamespaceWriter(file) == camelCase(RemoveFirst(file.fileName, s_json))

\* a namespace that is always derived from the file name
NamespaceOf_derived(file) == defaultNamespaceWriter(file)

\* file.config.namespaceName || this.pluginConfig.namespaceWriter(file)
NamespaceOf(file) ==
  IF file.namespaceName # <<>> /\ file.namespaceName[1] # <<>>
    THEN file.namespaceName[1]
    ELSE defaultNamespaceWriter(file)

\* a file of this.files: <<>> is no namespaceName, <<n>> the name n
PluginFile(language, fileName, namespaceName, hasContent) ==
  [language |-> language, fileName |-> fileName, namespaceName |-> namespaceName,
   hasContent |-> hasContent]

\* the files generateDefaultNamespaceFile has pushed: one per language, with
\* the file name and the namespaceName of the default-namespace configuration
DefaultNamespaceFiles(defaultNamespaceFile) ==
  IF defaultNamespaceFile.set
    THEN [l \in DOMAIN defaultNamespaceFile.languages |->
            PluginFile(defaultNamespaceFile.languages[l], defaultNamespaceFile.fileName,
                       defaultNamespaceFile.namespaceName, TRUE)]
    ELSE <<>>

\* resourcesByLanguageAndNamespace of the files of the plugin
ResourcesByLanguageAndNamespace(addGeneratedResources, thisFiles) ==
  IF addGeneratedResources
    THEN LET filesToAdd == SelectSeq(thisFiles, LAMBDA file : file.hasContent)
         IN  GeneratedResources(
               [i \in DOMAIN filesToAdd |->
                  [language |-> filesToAdd[i].language,
                   namespaceName |-> NamespaceOf(filesToAdd[i])]],
               1, Obj(<<>>))
    ELSE Obj(<<>>)

IdentifierExpr(name) == [op |-> "id", name |-> name]
MethodCall(on, method, argument) ==
  [op |-> "call", on |-> on, method |-> method, argument |-> argument]

\* a chain in which every registration starts again from the runtime instance
Use_unchained(callExpression, m) ==
  <<MethodCall(IdentifierExpr(s_i18n), s_use, m)>>

\* callExpression = (callExpression || i18n).use(m.importSpecifier); <<>> is
\* the undefined callExpression
Use(callExpression, m) ==
  <<MethodCall(IF callExpression # <<>> THEN callExpression[1] ELSE IdentifierExpr(s_i18n),
               s_use, m)>>

\* for (const m of middleware || [])
RECURSIVE ConfigureMiddleware(_, _, _)
ConfigureMiddleware(middleware, i, callExpression) ==
  IF i > Len(middleware) THEN callExpression
  ELSE ConfigureMiddleware(middleware, i + 1, Use(callExpression, middleware[i]))

\* (callExpression || i18n).init(i18nOpts)
InitCall(callExpression) ==
  MethodCall(IF callExpression # <<>> THEN callExpression[1] ELSE IdentifierExpr(s_i18n),
             s_init, s_i18nOpts)

\* the names the artifact declares: the imports, the init-options constant
\* when a default-namespace file is configured, the namespace type
DeclaredNames(middleware, generated, defaultNamespaceFile) ==
  {s_i18n, s_I18nNamespaces}
    \cup {middleware[i] : i \in DOMAIN middleware}
    \cup UNION {{generated.kids[l].n.kids[n].n.val : n \in DOMAIN generated.kids[l].n.kids} :
                  l \in DOMAIN generated.kids}
    \cup (IF defaultNamespaceFile.set THEN {s_i18nOpts} ELSE {})

\* the names the namespace type and the expressions refer to
RECURSIVE NamesIn(_)
NamesIn(expr) ==
  IF expr.op = "id" THEN {expr.name} ELSE NamesIn(expr.on) \cup {expr.argument}
ReferencedNames(callExpression) == {s_i18nOpts} \cup NamesIn(callExpression)

\* the init-options constant: <<>> when it is not declared
InitOptions(defaultNamespaceFile, resourcesObjectLiteral) ==
  IF defaultNamespaceFile.set
    THEN <<[resources |-> resourcesObjectLiteral,
            defaultNS |-> IF defaultNamespaceFile.namespaceName # <<>>
                            THEN Str(defaultNamespaceFile.namespaceName[1])
                            ELSE Undefined]>>
    ELSE <<>>

NoIndexDefaultNamespace ==
  [set |-> FALSE, languages |-> <<>>, fileName |-> <<>>, namespaceName |-> <<>>]
IndexDefaultNamespace(languages, fileName, namespaceName) ==
  [set |-> TRUE, languages |-> languages, fileName |-> fileName,
   namespaceName |-> namespaceName]

IndexFiles ==
  {PluginFile(language, name[1], name[2], hasContent) :
     language \in {s_en, s_fr},
     name \in {<<s_colorsJson, <<>>>>, <<s_payXJson, <<>>>>, <<s_colorsJson, <<s_pay>>>>},
     hasContent \in BOOLEAN}
IndexFileSeqs == UNION {[1..n -> IndexFiles] : n \in 0..MaxIndexFiles}
MiddlewareSeqs == UNION {[1..n -> {s_initReactI18next, s_backend}] : n \in 0..MaxMiddleware}
IndexDefaultNamespaces ==
  {NoIndexDefaultNamespace,
   IndexDefaultNamespace(Languages, s_commonJson, <<>>),
   IndexDefaultNamespace(Languages, s_commonJson, <<s_shared>>)}
IndexInputs ==
  {[kind |-> "index", files |-> configured, addGeneratedResources |-> add,
    middleware |-> specifiers, defaultNamespaceFile |-> dns] :
     configured \in IndexFileSeqs, add \in BOOLEAN, specifiers \in MiddlewareSeqs,
     dns \in IndexDefaultNamespaces}

IndexInit ==
  /\ RunIdle
  /\ arg \in IndexInputs
  /\ res = NoResult

\* generateIndexFile, with this.files as the configured files followed by the
\* default-namespace files
AssembleIndex ==
  /\ arg.kind = "index"
  /\ ~res.done
  /\ LET thisFiles == arg.files \o DefaultNamespaceFiles(arg.defaultNamespaceFile)
         generated == ResourcesByLanguageAndNamespace(arg.addGeneratedResources, thisFiles)
         resourcesObjectLiteral == buildResourcesObjectLiteral(Obj(<<>>), generated)
         callExpression == InitCall(ConfigureMiddleware(arg.middleware, 1, <<>>))
     IN  res' = [done |-> TRUE,
                 files |-> thisFiles,
                 generated |-> generated,
                 resources |-> resourcesObjectLiteral,
                 initOptions |-> InitOptions(arg.defaultNamespaceFile, resourcesObjectLiteral),
                 declared |-> DeclaredNames(arg.middleware, generated, arg.defaultNamespaceFile),
                 referenced |-> ReferencedNames(callExpression),
                 callExpression |-> callExpression]
  /\ UNCHANGED <<runVars, arg>>

IndexNext == AssembleIndex

SpecIndex == IndexInit /\ [][IndexNext]_vars

\* the file name with the extension stripped
StripExtension(fileName) ==
  IF Len(fileName) >= Len(s_json)
     /\ SubSeq(fileName, Len(fileName) - Len(s_json) + 1, Len(fileName)) = s_json
    THEN SubSeq(fileName, 1, Len(fileName) - Len(s_json))
    ELSE fileName

\* the namespace of a file: its explicit namespaceName or, failing that, its
\* file name with the extension stripped and camel-cased
ExpectedNamespace(file) ==
  IF file.namespaceName # <<>> THEN file.namespaceName[1]
  ELSE camelCase(StripExtension(file.fileName))

\* the (language, namespace) pairs of the produced files with content
ProducedPairs ==
  {<<res.files[i].language, ExpectedNamespace(res.files[i])>> :
     i \in {j \in DOMAIN res.files : res.files[j].hasContent}}

\* the (language, namespace) pairs the generated resource table has
TablePairs(table) ==
  UNION {{<<table.kids[l].k, table.kids[l].n.kids[n].k>> : n \in DOMAIN table.kids[l].n.kids} :
           l \in DOMAIN table.kids}

\* C24 as stated: the generated resource table has an entry for a
\* (language, namespace) pair exactly when some produced file with
\* non-empty content has that language and that namespace, the namespace of
\* a file being its explicit namespaceName or, failing that, its file name
\* with the extension stripped and camel-cased.
C24_TableOfProducedFiles ==
  (arg.kind = "index" /\ res.done) => TablePairs(res.generated) = ProducedPairs

\* C24: when the index file is configured to add the generated resources,
\* the generated resource table has an entry for a (language, namespace)
\* pair exactly when some produced file with non-empty content has that
\* language and that namespace; when it is not, the table has no entry.
C24_TableWhenAdded ==
  (arg.kind = "index" /\ res.done) =>
    /\ arg.addGeneratedResources => TablePairs(res.generated) = ProducedPairs
    /\ ~arg.addGeneratedResources => TablePairs(res.generated) = {}

\* files with and without content, a derived and an explicit namespace, and
\* the default-namespace files of two languages in one table
C24_Witness ==
  /\ arg.kind = "index"
  /\ res.done
  /\ arg.addGeneratedResources
  /\ arg.defaultNamespaceFile.set
  /\ \E i, j \in DOMAIN arg.files :
       /\ arg.files[i].hasContent
       /\ arg.files[i].namespaceName # <<>>
       /\ ~arg.files[j].hasContent
       /\ arg.files[j].fileName = s_payXJson
  /\ Cardinality(TablePairs(res.generated)) = 3

\* the files have content and the table has no entry
C24_NotAdded ==
  /\ arg.kind = "index"
  /\ res.done
  /\ ~arg.addGeneratedResources
  /\ ProducedPairs # {}
  /\ TablePairs(res.generated) = {}

\* the calls of a chain, innermost first, as <<method, argument>>
RECURSIVE CallsOf(_)
CallsOf(expr) ==
  IF expr.op = "id" THEN <<>>
  ELSE Append(CallsOf(expr.on), <<expr.method, expr.argument>>)

\* what a chain starts from
RECURSIVE ReceiverOf(_)
ReceiverOf(expr) == IF expr.op = "id" THEN expr ELSE ReceiverOf(expr.on)

\* C25: the initialization expression registers every configured middleware
\* exactly once and in configured order, each registration chained on the
\* result of the previous one starting from the runtime instance, and the
\* initialization call is applied last on that chain; with no middleware it
\* is applied directly to the runtime instance.
C25_MiddlewareChain ==
  (arg.kind = "index" /\ res.done) =>
    /\ ReceiverOf(res.callExpression) = IdentifierExpr(s_i18n)
    /\ CallsOf(res.callExpression)
         = [i \in DOMAIN arg.middleware |-> <<s_use, arg.middleware[i]>>]
             \o << <<s_init, s_i18nOpts>> >>
    /\ arg.middleware = <<>> =>
         res.callExpression = MethodCall(IdentifierExpr(s_i18n), s_init, s_i18nOpts)

\* two different middleware, registered one on the other, then init
C25_Witness ==
  /\ arg.kind = "index"
  /\ res.done
  /\ arg.middleware = <<s_initReactI18next, s_backend>>
  /\ res.callExpression
       = MethodCall(MethodCall(MethodCall(IdentifierExpr(s_i18n), s_use, s_initReactI18next),
                               s_use, s_backend),
                    s_init, s_i18nOpts)

\* C27: whenever the index artifact is produced, the init-options constant
\* that the initialization call and the namespace union type refer to is
\* declared in that same artifact, also when no default-namespace file is
\* configured.
C27_InitOptionsDeclared ==
  (arg.kind = "index" /\ res.done) =>
    /\ s_i18nOpts \in res.referenced
    /\ s_i18nOpts \in res.declared
    /\ res.initOptions # <<>>

\* what holds: the constant is declared exactly when a default-namespace
\* file is configured, every other name that is referred to is declared
C27_DeclaredWithDefaultNamespace ==
  (arg.kind = "index" /\ res.done) =>
    /\ (s_i18nOpts \in res.declared) <=> arg.defaultNamespaceFile.set
    /\ (res.referenced \ {s_i18nOpts}) \subseteq res.declared

\* an artifact without a default-namespace file refers to the constant and
\* does not declare it
C27_Undeclared ==
  /\ arg.kind = "index"
  /\ res.done
  /\ ~arg.defaultNamespaceFile.set
  /\ s_i18nOpts \in res.referenced
  /\ s_i18nOpts \notin res.declared

\* the default-namespace files of the configuration, as pushed to this.files
ListedDefaultNamespaceFiles ==
  {res.files[i] : i \in {j \in DOMAIN res.files : j > Len(arg.files)}}

\* C28: when default-namespace support is enabled, the defaultNS value
\* injected into the init options equals the namespace under which the
\* default-namespace files are listed in the resource table, also when the
\* default-namespace configuration has no explicit namespaceName and the
\* namespace is derived from the file name.
C28_DefaultNSIsListedNamespace ==
  (arg.kind = "index" /\ res.done /\ arg.defaultNamespaceFile.set) =>
    /\ res.initOptions # <<>>
    /\ \A file \in ListedDefaultNamespaceFiles :
         /\ res.initOptions[1].defaultNS = Str(ExpectedNamespace(file))
         /\ arg.addGeneratedResources =>
              /\ res.initOptions[1].defaultNS.kind = "string"
              /\ <<file.language, res.initOptions[1].defaultNS.val>> \in TablePairs(res.generated)

\* what holds: defaultNS is the explicit namespaceName of the configuration
\* and is the listed namespace when there is one
C28_ExplicitOnly ==
  (arg.kind = "index" /\ res.done /\ arg.defaultNamespaceFile.set) =>
    /\ res.initOptions # <<>>
    /\ arg.defaultNamespaceFile.namespaceName # <<>> =>
         \A file \in ListedDefaultNamespaceFiles :
           res.initOptions[1].defaultNS = Str(ExpectedNamespace(file))
    /\ arg.defaultNamespaceFile.namespaceName = <<>> =>
         res.initOptions[1].defaultNS = Undefined

\* the files are listed under the derived namespace and defaultNS is undefined
C28_DerivedNamespace ==
  /\ arg.kind = "index"
  /\ res.done
  /\ arg.addGeneratedResources
  /\ arg.defaultNamespaceFile.set
  /\ arg.defaultNamespaceFile.namespaceName = <<>>
  /\ <<s_en, s_common>> \in TablePairs(res.generated)
  /\ res.initOptions[1].defaultNS = Undefined

\* no step removes a key from the registry
C26_Step == MapKeys(writtenTranslations) \subseteq MapKeys(writtenTranslations')

\* the reconciliation of a pass does not read the registry: its final flat
\* map and its content are those of the same pass against an empty registry
C26_NotRead ==
  \A q \in CompletedPasses :
    LET alone == mergeAndBuildTranslations(pluginConfig.conflictHandler, <<>>,
                                           q.recon.newTranslations, q.recon.existing)
    IN  /\ alone.final = q.recon.final
        /\ alone.content = q.content
        /\ MapKeys(q.recon.writtenBefore) \subseteq MapKeys(q.recon.writtenAfter)

\* C26: the registry grows monotonically during a run: after any step of
\* the run every key that was in the registry before that step is still in
\* it (entries may be overwritten, no key is removed), and the registry is
\* not read by the reconciliation of any file.
C26_RegistryMonotone == []C26_NotRead /\ [][C26_Step]_vars

\* a pass overwrote an entry of the registry and added a key to it
C26_Witness ==
  \E q \in CompletedPasses :
    /\ \E k \in MapKeys(q.recon.writtenBefore) :
         EntryOf(q.recon.writtenAfter, k) # EntryOf(q.recon.writtenBefore, k)
    /\ \E k \in MapKeys(q.recon.writtenBefore) : ~MapHas(q.recon.final, k)
    /\ \E k \in MapKeys(q.recon.writtenAfter) : ~MapHas(q.recon.writtenBefore, k)

\* C29: no resolved translation is lost in tree rebuilding. For every
\* reconciled file, flattening the serialized output gives back exactly the
\* key-to-value pairs of the file's final flat map, also when a generated
\* key and a persisted key are prefix-related such as `a` and `a.b`.
C29_NothingLostInRebuild ==
  \A i \in Reconciled : Flatten(Output(i)) = Pairs(recon[i].final)

\* what holds: the pairs are given back when no key of the final flat map
\* is a strict prefix of another one
C29_WithoutPrefixRelatedKeys ==
  \A i \in Reconciled :
    ~PrefixColliding(recon[i].final) => Flatten(Output(i)) = Pairs(recon[i].final)

\* a persisted key is a prefix of a generated key and the generated key is
\* not in the output
C29_LostKey ==
  \E i \in Reconciled :
    /\ PrefixColliding(recon[i].final)
    /\ \E j \in DOMAIN recon[i].final :
         /\ MapHas(recon[i].newTranslations, recon[i].final[j].key)
         /\ recon[i].final[j].key \notin KeysOf(Output(i))

\* a mapping with a null leaf somewhere in it
RECURSIVE HasNullLeaf(_)
HasNullLeaf(node) ==
  /\ node.kind = "object"
  /\ \E i \in DOMAIN node.kids :
       node.kids[i].n.kind = "null" \/ HasNullLeaf(node.kids[i].n)

\* C30: persisted content that parses successfully but is not a tree of
\* string leaves (a null leaf, or a top-level value that is not a mapping)
\* never aborts the run: reading the existing translations either treats it
\* as empty or flattens it without raising an error.
C30_ParsedContentIsNotFatal ==
  pc = "failed" => polled.kind # "json"

\* what holds: a top-level null is read as empty, a top-level string is
\* flattened under the empty key, and the run is aborted exactly by content
\* with a null leaf
C30_NullLeafAborts ==
  /\ pc = "failed" => (polled.kind = "json" /\ HasNullLeaf(polled.doc))
  /\ \A i \in Reconciled :
       /\ recon[i].read = Json(Null) => recon[i].existing = <<>>
       /\ recon[i].read = Json(Str(s_x)) => Pairs(recon[i].existing) = {<<(<<>>), s_x>>}
       /\ recon[i].read.kind = "json" => ~HasNullLeaf(recon[i].read.doc)

\* the run is aborted by the content {"enum": null} of its first file
C30_AbortedByNullLeaf ==
  /\ pc = "failed"
  /\ failedAt = 1
  /\ polled = Json(Obj(<<Prop(s_enum, Null)>>))

====
